---- MODULE Spec2Model ----
(***************************************************************************)
(* A model of github.com/umakantv/go-utils.                                *)
(*                                                                         *)
(* Part 1: the migration runner, db/migrations (Migrate and its helpers).  *)
(* Strings are sequences of byte values, so that HasSuffix, TrimSuffix,    *)
(* Base and sort.Strings are computed as Go computes them.                 *)
(* Part 2: CreateMigration, the generator of migration files.              *)
(* Part 3: MemoryCache, the in-memory cache with its cleanup pass.         *)
(* Part 4: httpclient, New and the retry loop of Client.Do.                *)
(* Part 5: httpserver, the closure wrapHandler puts around a handler.      *)
(* Part 6: the handlers of the example user service and their cache.       *)
(* Part 7: MemoryCache, the user service and the body of Client.Do with    *)
(* the steps of concurrent callers and of successive attempts apart.       *)
(* Each part has its own specification; it leaves the variables of the     *)
(* other parts in their initial state.                                     *)
(***************************************************************************)
EXTENDS Integers, Sequences, FiniteSets, Bags, TLC

\* ------------------------------------------------------------------ bounds

\* Migrate calls a runner makes in one behaviour.
MaxRuns == 2

\* Environment faults (datastore or file-system errors that are not caused
\* by the SQL text) injected in one behaviour.
MaxFaults == 1

\* CreateMigration invocations in one behaviour.
MaxCalls == 2

\* Seconds the wall clock advances while CreateMigration invocations run.
MaxSeconds == 2

\* Single clock ticks, and whole cleanup intervals, that pass while the
\* in-memory cache is in use.
MaxSteps == 2
MaxJumps == 1

\* The largest retry count given to the HTTP client or to a request.
MaxRetriesArg == 3

\* Requests the HTTP server handles in one behaviour.
MaxRequests == 2

\* Rows the user service inserts in the table users in one behaviour.
MaxUsers == 2

\* Goroutines that call the in-memory cache concurrently.
MaxGoroutines == 2

\* The bytes of a request body.
MaxBody == 2

\* Requests the user service serves concurrently.
MaxClients == 3

\* ----------------------------------------------------------------- strings

Min(a, b) == IF a < b THEN a ELSE b

\* strings.HasSuffix
HasSuffix(s, suffix) ==
    /\ Len(s) >= Len(suffix)
    /\ SubSeq(s, Len(s) - Len(suffix) + 1, Len(s)) = suffix

\* strings.TrimSuffix
TrimSuffix(s, suffix) ==
    IF HasSuffix(s, suffix) THEN SubSeq(s, 1, Len(s) - Len(suffix)) ELSE s

\* The path separator, '/'.
Separator == <<47>>

\* filepath.Join(dir, name), for a clean dir and a plain name.
Join(d, name) == d \o Separator \o name

\* filepath.Base: what follows the last separator.
Base(path) ==
    LET seps == {i \in 1..Len(path) : <<path[i]>> = Separator}
        last == CHOOSE i \in seps : \A j \in seps : j <= i
    IN  IF seps = {} THEN path ELSE SubSeq(path, last + 1, Len(path))

\* Go's < on strings: bytewise lexicographic order.
StrLess(a, b) ==
    LET diff == {k \in 1..Min(Len(a), Len(b)) : a[k] # b[k]}
        first == CHOOSE k \in diff : \A j \in diff : k <= j
    IN  IF diff = {} THEN Len(a) < Len(b) ELSE a[first] < b[first]

RECURSIVE InsertSorted(_, _)
InsertSorted(s, sorted) ==
    IF sorted = <<>> THEN <<s>>
    ELSE IF StrLess(s, Head(sorted)) THEN <<s>> \o sorted
    ELSE <<Head(sorted)>> \o InsertSorted(s, Tail(sorted))

RECURSIVE InsertSortedDesc(_, _)
InsertSortedDesc(s, sorted) ==
    IF sorted = <<>> THEN <<s>>
    ELSE IF StrLess(Head(sorted), s) THEN <<s>> \o sorted
    ELSE <<Head(sorted)>> \o InsertSortedDesc(s, Tail(sorted))

\* A sort with the comparison turned round: descending order.
SortStringsDesc(seq) ==
    LET RECURSIVE Sort(_)
        Sort(q) == IF q = <<>> THEN <<>>
                   ELSE InsertSortedDesc(Head(q), Sort(Tail(q)))
    IN  Sort(seq)

\* sort.Strings: ascending order.
SortStrings(seq) ==
    LET RECURSIVE Sort(_)
        Sort(q) == IF q = <<>> THEN <<>>
                   ELSE InsertSorted(Head(q), Sort(Tail(q)))
    IN  Sort(seq)

\* ".sql"
SqlSuffix == <<46, 115, 113, 108>>

\* The migrations directory handed to Migrate: "migrations".
MigrationsDir == <<109, 105, 103, 114, 97, 116, 105, 111, 110, 115>>

\* ------------------------------------------------------- directory entries

\* "20230101120000_init.sql"
InitSql == <<50, 48, 50, 51, 48, 49, 48, 49, 49, 50, 48, 48, 48, 48, 95,
             105, 110, 105, 116, 46, 115, 113, 108>>
\* "20230101120001_seed.sql"
SeedSql == <<50, 48, 50, 51, 48, 49, 48, 49, 49, 50, 48, 48, 48, 49, 95,
             115, 101, 101, 100, 46, 115, 113, 108>>
\* "20230102090000_more.sql"
MoreSql == <<50, 48, 50, 51, 48, 49, 48, 50, 48, 57, 48, 48, 48, 48, 95,
             109, 111, 114, 101, 46, 115, 113, 108>>
\* "bad name.sql"
BadSql == <<98, 97, 100, 32, 110, 97, 109, 101, 46, 115, 113, 108>>
\* "20230101000000_old.sql", a subdirectory
OldDir == <<50, 48, 50, 51, 48, 49, 48, 49, 48, 48, 48, 48, 48, 48, 95,
            111, 108, 100, 46, 115, 113, 108>>
\* "README.md"
Readme == <<82, 69, 65, 68, 77, 69, 46, 109, 100>>

\* The regular files ending in .sql a directory may hold.
SqlNames == {InitSql, SeedSql, MoreSql, BadSql}

\* A statement of a migration file: its kind, and whether its SQL is valid.
\* A "create" fails when what it creates exists already; an "insert" adds a
\* row each time it is executed.
Create == [kind |-> "create", ok |-> TRUE]
Insert == [kind |-> "insert", ok |-> TRUE]

\* The SQL each file holds when it is first written.
Script(name) ==
    IF name = InitSql THEN <<Create, Insert>>
    ELSE IF name = SeedSql THEN <<Insert, Insert>>
    ELSE IF name \in SqlNames THEN <<Insert>>
    ELSE <<>>

\* Statement i of the script made invalid (a syntax error, a constraint the
\* data violates).
Break(script, i) == [script EXCEPT ![i].ok = FALSE]

\* The script with every statement valid: what the operator does to a file
\* whose migration failed.
Repair(script) == [i \in 1..Len(script) |-> [script[i] EXCEPT !.ok = TRUE]]

\* The directory with the given .sql files, one subdirectory and one other
\* file; brk is <<>> or <<name, i>>, the statement that is invalid.
Tree(present, brk) ==
    [n \in present \cup {OldDir, Readme} |->
        [isDir |-> (n = OldDir),
         content |-> IF brk # <<>> /\ brk[1] = n
                     THEN Break(Script(n), brk[2]) ELSE Script(n)]]

\* The statements of the present files: the ones that can be invalid.
Statements(present) ==
    UNION {{<<n, i>> : i \in 1..Len(Script(n))} : n \in present}

\* The directories a behaviour may start with: any of the .sql files, with at
\* most one invalid statement.
Trees ==
    UNION {{Tree(present, brk) : brk \in {<<>>} \cup Statements(present)} :
              present \in SUBSET SqlNames}

\* ------------------------------------------------------------------- state

Runners == {1, 2}

\* The database drivers GetDBConnection knows.
Drivers == {"sqlite3", "mysql", "postgres"}

VARIABLES
    dir,      \* the migrations directory: name |-> [isDir, content]
    driver,   \* the driver behind the *sql.DB
    db,       \* the datastore: [table, ledger, rows]
    pc,       \* each runner's position in Migrate
    files,    \* Migrate's local: the sorted paths
    idx,      \* Migrate's loop index into files
    content,  \* runMigration's local: the file content read
    result,   \* what the runner's last Migrate call returned
    trace,    \* history: what the current Migrate call has done, in order
    db0,      \* history: the datastore when the current call began
    env,      \* history: an environment fault was injected in this call
    runNo,    \* history: Migrate calls begun by each runner
    faults,   \* history: environment faults injected so far
    hist      \* history: the calls returned and the files repaired, in order

\* CreateMigration, one invocation of the command per caller.
Callers == 1..MaxCalls

VARIABLES
    clock,      \* the wall clock: seconds since Epoch
    dirExists,  \* the directory of --dir exists
    fs,         \* the regular files of that directory: name |-> content
    cmPc,       \* each invocation's position in CreateMigration
    nameFlag,   \* each invocation's --name
    timestamp,  \* CreateMigration's local: the formatted time
    filename,   \* CreateMigration's local: the generated file name
    cmHist      \* history: per invocation, the instant read, the effects on
                \* the file system, and what its write replaced

\* The keys and values the cache's callers use.
Keys == {"a", "b"}
Values == {"v1", "v2"}

VARIABLES
    now,      \* the wall clock, in ticks
    items,    \* MemoryCache.items: key |-> [value, expiration]
    ticker,   \* the instant of the next tick of cleanup's ticker
    ret,      \* the last cache operation, what it returned, and whether
              \* the clock still reads the instant of the call
    written   \* history: per key, the last Set or Delete, the instant the
              \* ttl of the Set is over, whether the Set replaced a value

VARIABLES
    config,   \* Client.config, of which MaxRetries
    reqOpts,  \* Do's local: the options of the request, of which Retries
    hcPc,     \* the position in New and Do
    retries,  \* Do's local
    attempt,  \* Do's loop variable
    reply,    \* Do's locals resp and err
    log,      \* history: the attempts and sleeps of the current Do, in order
    call,     \* history: how the current call was made: with WithRetries,
              \* through a JSON method, with a non-nil result
    jsonRet   \* what the JSON method returned

\* The requests the server handles, each by its own goroutine.
Requests == 1..MaxRequests

\* Route.AuthType: the documented "none", "basic" and "bearer", the zero
\* value of the field, and a type the package does not name.
AuthTypes == {"none", "basic", "bearer", "", "jwt"}

\* The Route registered for each auth type, and the zero Route.
RouteOf(t) ==
    [Name |-> "Route-" \o t, Method |-> "GET", Path |-> "/" \o t,
     AuthType |-> t]
Routes == {RouteOf(t) : t \in AuthTypes}
NoRoute == [Name |-> "", Method |-> "", Path |-> "", AuthType |-> ""]

\* The RequestAuth values an AuthCallback returns: the zero value and the
\* identity of a client.
ZeroAuth == [Type |-> "", Client |-> "", Claims |-> "nil"]
Auths == {ZeroAuth, [Type |-> "bearer", Client |-> "client", Claims |-> "claims"]}

\* The context keys of the package.
RouteNameKey == "route_name"
RouteMethodKey == "route_method"
RoutePathKey == "route_path"
AuthTypeKey == "auth_type"
RequestAuthKey == "request_auth"

\* r.Context() of a request net/http hands to the router: it holds none of
\* the keys of the package.
Background == [k \in {} |-> 0]

VARIABLES
    server,       \* the Server built by New: none, or one with authCallback
    whPc,         \* each request's position in the closure of wrapHandler
    route,        \* the route of the closure that serves the request
    cbRet,        \* what s.authCallback(r) returned for the request
    requestAuth,  \* the closure's local requestAuth: nil, or one value
    ctx,          \* the closure's local ctx: key |-> value
    response,     \* the status written to the ResponseWriter, 0 for none
    steps,        \* history: what the closure has done, in order
    seen          \* history: the context handler.Handle was called with

\* The example user service: one request a time.
VARIABLES
    users,    \* the table users: id |-> name
    lastId,   \* the last id AUTOINCREMENT gave
    cache,    \* UserHandler.cache: key |-> value
    uhPc,     \* the position in the handler that runs
    ureq,     \* the request: the handler, the {id} of the path, the body
    ustatus,  \* the status the handler wrote, 0 for none
    usteps,   \* history: what the handler has done, in order
    cache0    \* history: the cache when the handler began

\* The goroutines that call the cache; goroutine 0 is the one of cleanup.
Goroutines == 0..MaxGoroutines

\* MemoryCache with the steps of its goroutines apart.
VARIABLES
    mutex,   \* MemoryCache.mutex: the goroutine holding it for writing, if
             \* any, and the goroutines holding it for reading
    gPc,     \* each goroutine's position: idle, reading or writing the map
    gOp,     \* the operation each goroutine is in, and its key
    fatal    \* the runtime has ended the process

\* The request body of Client.Do.
VARIABLES
    reqBody, \* reqOpts.Body: nil, or a reader with its data and offset
    wire     \* history: what each attempt of the call has sent as body

\* The user service with its requests served concurrently.
Clients == 1..MaxClients

VARIABLES
    rqPc,       \* each request's position in its handler
    rqHandler,  \* the handler that serves the request
    got,        \* the handler's local: the data read from the database
    answer,     \* the response written: status, from the cache or not
    base,       \* history: the last acknowledged write when the request came
    wrote,      \* history: the number of the write the handler made
    dbVer,      \* history: the writes the database has committed
    acked       \* history: the last write whose response was written

locals == <<files, idx, content>>
migrateVars == <<dir, driver, db, pc, files, idx, content, result, trace, db0,
                 env, runNo, faults, hist>>
createVars == <<clock, dirExists, fs, cmPc, nameFlag, timestamp, filename,
                cmHist>>
cacheVars == <<now, items, ticker, ret, written>>
clientVars == <<config, reqOpts, hcPc, retries, attempt, reply, log, call,
                jsonRet>>
serverVars == <<server, whPc, route, cbRet, requestAuth, ctx, response, steps,
                seen>>
userVars == <<users, lastId, cache, uhPc, ureq, ustatus, usteps, cache0>>
lockVars == <<mutex, gPc, gOp, fatal>>
bodyVars == <<reqBody, wire>>
raceVars == <<rqPc, rqHandler, got, answer, base, wrote, dbVer, acked>>
vars == <<migrateVars, createVars, cacheVars, clientVars, serverVars,
          userVars, lockVars, bodyVars, raceVars>>

Ev(op, path) == [op |-> op, path |-> path]

\* ------------------------------------------------------------- the program

\* The error of createMigrationsTable dropped.
MigrateAfterTableIgnored(err) == "list"

\* Migrate, lines 17-19: an error of createMigrationsTable is returned.
MigrateAfterTable(err) == IF err THEN "return" ELSE "list"

\* Migrate, lines 22-25: an error of getMigrationFiles is returned.
MigrateAfterFiles(err) == IF err THEN "return" ELSE "loop"

\* The error of runMigration dropped: the loop goes on.
MigrateAfterRunIgnored(err) == "loop"

\* Migrate, lines 28-32: an error of runMigration is returned, and the loop
\* goes on otherwise.
MigrateAfterRun(err) == IF err THEN "return" ELSE "loop"

\* ioutil.ReadDir: the names of the directory, sorted by filename.
ReadDir(d) ==
    LET RECURSIVE Sorted(_)
        Sorted(S) ==
            IF S = {} THEN <<>>
            ELSE LET m == CHOOSE x \in S : \A y \in S \ {x} : StrLess(x, y)
                 IN  <<m>> \o Sorted(S \ {m})
    IN  Sorted(DOMAIN d)

\* A listing that takes subdirectories too.
getMigrationFilesAll(d) ==
    LET names == ReadDir(d)
        keep == SelectSeq(names, LAMBDA n : HasSuffix(n, SqlSuffix))
    IN  SortStrings([i \in 1..Len(keep) |-> Join(MigrationsDir, keep[i])])

\* getMigrationFiles, lines 55-64: the joined paths of the entries that are
\* not directories and end in .sql, sorted.
getMigrationFiles(d) ==
    LET names == ReadDir(d)
        keep == SelectSeq(names,
                    LAMBDA n : ~d[n].isDir /\ HasSuffix(n, SqlSuffix))
    IN  SortStrings([i \in 1..Len(keep) |-> Join(MigrationsDir, keep[i])])

\* runMigration, line 69.
Version(path) == TrimSuffix(Base(path), SqlSuffix)

\* A check that finds no version.
LedgerHasNever(ledger, version) == FALSE

\* runMigration, line 73: SELECT EXISTS(... WHERE version = ?).
LedgerHas(ledger, version) == version \in ledger

\* An insert that replaces the rows of the ledger.
RecordVersionOnly(ledger, version) == {version}

\* runMigration, line 97: INSERT INTO schema_migrations (version).
RecordVersion(ledger, version) == ledger \cup {version}

\* The placeholder "?" of lines 73 and 97 is not one lib/pq accepts.
PlaceholderRejected(drv) == drv = "postgres"

\* Whether statement i of the script fails when executed: the fault hits
\* it, its SQL is invalid, or it creates what exists already.
StmtFails(rows, name, script, i, faultAt) ==
    \/ i = faultAt
    \/ ~script[i].ok
    \/ script[i].kind = "create" /\ CopiesIn(<<name, i>>, rows) > 0

\* An execution that leaves a statement that has taken effect already as it
\* is.
ExecOnce(drv, rows, name, script, faultAt) ==
    [rows |-> rows (+) SetToBag({<<name, i>> : i \in
                {j \in 1..Len(script) : CopiesIn(<<name, j>>, rows) = 0}}),
     err |-> FALSE]

\* db.Exec(string(content)) of line 91, outside any transaction.
\* sqlite3 executes the statements one by one, each committed by itself, and
\* stops at the first that fails; mysql (no multiStatements in the DSN of
\* GetDBConnection) rejects a text of several statements; lib/pq sends the
\* text as one simple query, which the server runs as one unit.
Exec(drv, rows, name, script, faultAt) ==
    LET failing == {i \in 1..Len(script) :
                        StmtFails(rows, name, script, i, faultAt)}
        stop == IF failing = {} THEN Len(script) + 1
                ELSE CHOOSE i \in failing : \A j \in failing : i <= j
        err == failing # {} \/ (drv = "mysql" /\ Len(script) > 1)
        kept == IF drv = "sqlite3" THEN 1..(stop - 1)
                ELSE IF err THEN {} ELSE 1..Len(script)
    IN  [rows |-> rows (+) SetToBag({<<name, i>> : i \in kept}), err |-> err]

\* Nothing has called Migrate yet: the directory and the driver are among
\* the given ones, the datastore is empty.
MigrateInit(trees, drivers) ==
    /\ dir \in trees
    /\ driver \in drivers
    /\ db = [table |-> FALSE, ledger |-> {}, rows |-> EmptyBag]
    /\ pc = [r \in Runners |-> "idle"]
    /\ files = [r \in Runners |-> <<>>]
    /\ idx = [r \in Runners |-> 0]
    /\ content = [r \in Runners |-> <<>>]
    /\ result = [r \in Runners |-> "none"]
    /\ trace = [r \in Runners |-> <<>>]
    /\ db0 = [r \in Runners |-> [table |-> FALSE, ledger |-> {},
                                 rows |-> EmptyBag]]
    /\ env = [r \in Runners |-> FALSE]
    /\ runNo = [r \in Runners |-> 0]
    /\ faults = 0
    /\ hist = <<>>

\* No CreateMigration invocation has begun; the clock reads Epoch.
CreateInit(exists) ==
    /\ clock = 0
    /\ dirExists \in exists
    /\ fs = [f \in {} |-> 0]
    /\ cmPc = [c \in Callers |-> "idle"]
    /\ nameFlag = [c \in Callers |-> <<>>]
    /\ timestamp = [c \in Callers |-> <<>>]
    /\ filename = [c \in Callers |-> <<>>]
    /\ cmHist = [c \in Callers |-> [at |-> <<>>, did |-> {}, over |-> FALSE]]

\* The clock of the cache counts ticks of 1/TicksPerSecond s: time.Duration
\* is finer than the second time.Time.Unix() returns.
TicksPerSecond == 2

\* time.Time.Unix(): whole seconds.
Unix(t) == t \div TicksPerSecond

\* cleanup, line 104: 5 * time.Minute, in seconds.
CleanupInterval == 300

\* The instant newMemoryCache is called: a second and a tick.
Created == TicksPerSecond + 1

NoOp ==
    [op |-> "none", key |-> "", value |-> "nil", err |-> "nil",
     fresh |-> FALSE, removed |-> {}]

\* newMemoryCache, lines 21-30: an empty map, and the ticker of cleanup.
CacheInit ==
    /\ now = Created
    /\ items = [k \in {} |-> 0]
    /\ ticker = Created + CleanupInterval * TicksPerSecond
    /\ ret = NoOp
    /\ written = [k \in Keys |->
                    [op |-> "none", value |-> "nil", due |-> 0,
                     over |-> FALSE]]

\* No Client has been built.
ClientInit ==
    /\ config = [MaxRetries |-> 0]
    /\ reqOpts = [Retries |-> 0, valid |-> TRUE]
    /\ hcPc = "new"
    /\ retries = 0
    /\ attempt = 0
    /\ reply = [status |-> 0, err |-> "nil"]
    /\ log = <<>>
    /\ call = [withRetries |-> FALSE, json |-> FALSE, result |-> FALSE]
    /\ jsonRet = "none"

\* No Server has been built, no request has arrived.
ServerInit ==
    /\ server = {}
    /\ whPc = [q \in Requests |-> "idle"]
    /\ route = [q \in Requests |-> NoRoute]
    /\ cbRet = [q \in Requests |-> {}]
    /\ requestAuth = [q \in Requests |-> {}]
    /\ ctx = [q \in Requests |-> Background]
    /\ response = [q \in Requests |-> 0]
    /\ steps = [q \in Requests |-> <<>>]
    /\ seen = [q \in Requests |-> {}]

\* The schema has been run, the table users and the cache are empty.
UserInit ==
    /\ users = [i \in {} |-> 0]
    /\ lastId = 0
    /\ cache = [k \in {} |-> 0]
    /\ uhPc = "idle"
    /\ ureq = [handler |-> "none", idStr |-> <<>>, body |-> "none"]
    /\ ustatus = 0
    /\ usteps = <<>>
    /\ cache0 = [k \in {} |-> 0]

\* The cache as newMemoryCache leaves it: the mutex is free.
LockInit ==
    /\ mutex = [writer |-> {}, readers |-> {}]
    /\ gPc = [g \in Goroutines |-> "idle"]
    /\ gOp = [g \in Goroutines |-> [op |-> "none", key |-> ""]]
    /\ fatal = FALSE

\* No call of Do has been made.
BodyInit ==
    /\ reqBody = {}
    /\ wire = <<>>

\* No request has come.
RaceInit ==
    /\ rqPc = [q \in Clients |-> "idle"]
    /\ rqHandler = [q \in Clients |-> "none"]
    /\ got = [q \in Clients |-> {}]
    /\ answer = [q \in Clients |-> [status |-> 0, cached |-> FALSE, ver |-> 0]]
    /\ base = [q \in Clients |-> 0]
    /\ wrote = [q \in Clients |-> 0]
    /\ dbVer = 0
    /\ acked = 0

Init ==
    /\ MigrateInit(Trees, Drivers)
    /\ CreateInit({FALSE})
    /\ CacheInit
    /\ ClientInit
    /\ ServerInit
    /\ UserInit
    /\ LockInit
    /\ BodyInit
    /\ RaceInit

\* An environment fault is injected, or not.
Inject(r, fault) ==
    /\ fault => faults < MaxFaults
    /\ faults' = IF fault THEN faults + 1 ELSE faults
    /\ env' = [env EXCEPT ![r] = @ \/ fault]

\* Migrate returns res; path and stage say where it failed.
Return(r, res, path, stage, fault) ==
    /\ pc' = [pc EXCEPT ![r] = "done"]
    /\ result' = [result EXCEPT ![r] = res]
    /\ hist' = Append(hist, [ev |-> "run", runner |-> r, result |-> res,
                             path |-> path, stage |-> stage,
                             env |-> (env[r] \/ fault)])

\* runMigration returns to the loop of Migrate, lines 28-32.
RunMigrationReturns(r, err, stage, fault) ==
    IF MigrateAfterRun(err) = "return"
    THEN /\ Return(r, "err", files[r][idx[r]], stage, fault)
         /\ UNCHANGED idx
    ELSE /\ pc' = [pc EXCEPT ![r] = "loop"]
         /\ idx' = [idx EXCEPT ![r] = @ + 1]
         /\ UNCHANGED <<result, hist>>

\* A call of Migrate begins.
Start(r) ==
    /\ pc[r] \in {"idle", "done"}
    /\ runNo[r] < MaxRuns
    /\ runNo' = [runNo EXCEPT ![r] = @ + 1]
    /\ pc' = [pc EXCEPT ![r] = "ensure"]
    /\ files' = [files EXCEPT ![r] = <<>>]
    /\ idx' = [idx EXCEPT ![r] = 0]
    /\ content' = [content EXCEPT ![r] = <<>>]
    /\ result' = [result EXCEPT ![r] = "none"]
    /\ trace' = [trace EXCEPT ![r] = <<>>]
    /\ db0' = [db0 EXCEPT ![r] = db]
    /\ env' = [env EXCEPT ![r] = FALSE]
    /\ UNCHANGED <<dir, driver, db, faults, hist>>

\* createMigrationsTable, lines 38-47, and Migrate, lines 17-19.
EnsureTable(r) ==
    /\ pc[r] = "ensure"
    /\ \E fault \in BOOLEAN :
        /\ Inject(r, fault)
        /\ db' = IF fault THEN db ELSE [db EXCEPT !.table = TRUE]
        /\ trace' = [trace EXCEPT ![r] =
                        IF fault
                        THEN @ \o <<Ev("ensure", <<>>), Ev("fail", <<>>)>>
                        ELSE Append(@, Ev("ensure", <<>>))]
        /\ IF MigrateAfterTable(fault) = "return"
           THEN Return(r, "err", <<>>, "ensure", fault)
           ELSE /\ pc' = [pc EXCEPT ![r] = "list"]
                /\ UNCHANGED <<result, hist>>
    /\ UNCHANGED <<dir, driver, locals, db0, runNo>>

\* getMigrationFiles, lines 49-65, and Migrate, lines 22-25.
ListFiles(r) ==
    /\ pc[r] = "list"
    /\ \E fault \in BOOLEAN :
        /\ Inject(r, fault)
        /\ trace' = [trace EXCEPT ![r] =
                        IF fault
                        THEN @ \o <<Ev("list", <<>>), Ev("fail", <<>>)>>
                        ELSE Append(@, Ev("list", <<>>))]
        /\ IF MigrateAfterFiles(fault) = "return"
           THEN /\ Return(r, "err", <<>>, "list", fault)
                /\ UNCHANGED <<files, idx>>
           ELSE /\ files' = [files EXCEPT ![r] =
                                IF fault THEN <<>> ELSE getMigrationFiles(dir)]
                /\ idx' = [idx EXCEPT ![r] = 1]
                /\ pc' = [pc EXCEPT ![r] = "loop"]
                /\ UNCHANGED <<result, hist>>
    /\ UNCHANGED <<dir, driver, db, content, db0, runNo>>

\* Migrate, lines 28 and 34-35: no file is left, Migrate returns nil.
Complete(r) ==
    /\ pc[r] = "loop"
    /\ idx[r] > Len(files[r])
    /\ Return(r, "ok", <<>>, "complete", FALSE)
    /\ UNCHANGED <<dir, driver, db, locals, trace, db0, env, runNo, faults>>

\* runMigration, lines 69-81: the ledger check, and the skip of a version
\* that is recorded.
CheckApplied(r) ==
    /\ pc[r] = "loop"
    /\ idx[r] <= Len(files[r])
    /\ LET path == files[r][idx[r]] IN
       \E fault \in BOOLEAN :
        /\ Inject(r, fault)
        /\ LET err == fault \/ ~db.table \/ PlaceholderRejected(driver) IN
           IF err
           THEN /\ RunMigrationReturns(r, TRUE, "check", fault)
                /\ trace' = [trace EXCEPT ![r] =
                                @ \o <<Ev("check", path), Ev("fail", path)>>]
           ELSE IF LedgerHas(db.ledger, Version(path))
           THEN /\ RunMigrationReturns(r, FALSE, "check", fault)
                /\ trace' = [trace EXCEPT ![r] =
                                @ \o <<Ev("check", path), Ev("skip", path)>>]
           ELSE /\ pc' = [pc EXCEPT ![r] = "read"]
                /\ trace' = [trace EXCEPT ![r] = Append(@, Ev("check", path))]
                /\ UNCHANGED <<idx, result, hist>>
    /\ UNCHANGED <<dir, driver, db, files, content, db0, runNo>>

\* runMigration, lines 84-87: the file is read.
ReadFile(r) ==
    /\ pc[r] = "read"
    /\ LET path == files[r][idx[r]] IN
       \E fault \in BOOLEAN :
        /\ Inject(r, fault)
        /\ IF fault
           THEN /\ RunMigrationReturns(r, TRUE, "read", fault)
                /\ trace' = [trace EXCEPT ![r] =
                                @ \o <<Ev("read", path), Ev("fail", path)>>]
                /\ UNCHANGED content
           ELSE /\ content' = [content EXCEPT ![r] = dir[Base(path)].content]
                /\ pc' = [pc EXCEPT ![r] = "exec"]
                /\ trace' = [trace EXCEPT ![r] = Append(@, Ev("read", path))]
                /\ UNCHANGED <<idx, result, hist>>
    /\ UNCHANGED <<dir, driver, db, files, db0, runNo>>

\* runMigration, lines 90-94: the SQL of the file is executed.
ExecSQL(r) ==
    /\ pc[r] = "exec"
    /\ LET path == files[r][idx[r]] IN
       \E faultAt \in 0..Len(content[r]) :
        /\ Inject(r, faultAt > 0)
        /\ LET out == Exec(driver, db.rows, Base(path), content[r], faultAt) IN
           /\ db' = [db EXCEPT !.rows = out.rows]
           /\ IF out.err
              THEN /\ RunMigrationReturns(r, TRUE, "exec", faultAt > 0)
                   /\ trace' = [trace EXCEPT ![r] =
                                   @ \o <<Ev("exec", path), Ev("fail", path)>>]
              ELSE /\ pc' = [pc EXCEPT ![r] = "record"]
                   /\ trace' = [trace EXCEPT ![r] = Append(@, Ev("exec", path))]
                   /\ UNCHANGED <<idx, result, hist>>
    /\ UNCHANGED <<dir, driver, files, content, db0, runNo>>

\* runMigration, lines 97-103: the version is recorded in the ledger; the
\* primary key rejects a version that is there already.
Record(r) ==
    /\ pc[r] = "record"
    /\ LET path == files[r][idx[r]] IN
       \E fault \in BOOLEAN :
        /\ Inject(r, fault)
        /\ LET err == fault \/ ~db.table \/ Version(path) \in db.ledger IN
           IF err
           THEN /\ RunMigrationReturns(r, TRUE, "record", fault)
                /\ trace' = [trace EXCEPT ![r] =
                                @ \o <<Ev("record", path), Ev("fail", path)>>]
                /\ UNCHANGED db
           ELSE /\ db' = [db EXCEPT
                            !.ledger = RecordVersion(@, Version(path))]
                /\ RunMigrationReturns(r, FALSE, "record", fault)
                /\ trace' = [trace EXCEPT ![r] = Append(@, Ev("record", path))]
    /\ UNCHANGED <<dir, driver, files, content, db0, runNo>>

\* The operator repairs the SQL of a file while no Migrate call is running.
FixFile(n) ==
    /\ \A r \in Runners : pc[r] \in {"idle", "done"}
    /\ n \in DOMAIN dir
    /\ \E i \in 1..Len(dir[n].content) : ~dir[n].content[i].ok
    /\ dir' = [dir EXCEPT ![n].content = Repair(@)]
    /\ hist' = Append(hist, [ev |-> "fix", name |-> n])
    /\ UNCHANGED <<driver, db, pc, locals, result, trace, db0, env, runNo,
                   faults>>

\* One runner: the only writer of the datastore.
Next ==
    \/ Start(1) /\ UNCHANGED <<createVars, cacheVars, clientVars, serverVars,
                         userVars, lockVars,
                           bodyVars, raceVars>>
    \/ EnsureTable(1) /\ UNCHANGED <<createVars, cacheVars, clientVars, serverVars,
                         userVars, lockVars,
                           bodyVars, raceVars>>
    \/ ListFiles(1) /\ UNCHANGED <<createVars, cacheVars, clientVars, serverVars,
                         userVars, lockVars,
                           bodyVars, raceVars>>
    \/ Complete(1) /\ UNCHANGED <<createVars, cacheVars, clientVars, serverVars,
                         userVars, lockVars,
                           bodyVars, raceVars>>
    \/ CheckApplied(1) /\ UNCHANGED <<createVars, cacheVars, clientVars, serverVars,
                         userVars, lockVars,
                           bodyVars, raceVars>>
    \/ ReadFile(1) /\ UNCHANGED <<createVars, cacheVars, clientVars, serverVars,
                         userVars, lockVars,
                           bodyVars, raceVars>>
    \/ ExecSQL(1) /\ UNCHANGED <<createVars, cacheVars, clientVars, serverVars,
                         userVars, lockVars,
                           bodyVars, raceVars>>
    \/ Record(1) /\ UNCHANGED <<createVars, cacheVars, clientVars, serverVars,
                         userVars, lockVars,
                           bodyVars, raceVars>>
    \/ (\E n \in SqlNames : FixFile(n))
            /\ UNCHANGED <<createVars, cacheVars, clientVars, serverVars,
                         userVars, lockVars,
                           bodyVars, raceVars>>

Spec == Init /\ [][Next]_vars

\* ------------------------------------------------------------- vocabulary

IsDigit(b) == b >= 48 /\ b <= 57

\* [A-Za-z0-9_]
IsWord(b) ==
    IsDigit(b) \/ (b >= 65 /\ b <= 90) \/ (b >= 97 /\ b <= 122) \/ b = 95

\* The digits of the timestamp "20060102150405" of CreateMigration.
TimestampLen == 14

\* migrationFilePattern, ^\d{14}_[A-Za-z0-9_]+\.sql$ .
MatchesMigrationFilePattern(name) ==
    /\ Len(name) >= TimestampLen + 2 + Len(SqlSuffix)
    /\ \A i \in 1..TimestampLen : IsDigit(name[i])
    /\ name[TimestampLen + 1] = 95
    /\ HasSuffix(name, SqlSuffix)
    /\ \A i \in (TimestampLen + 2)..(Len(name) - Len(SqlSuffix)) :
            IsWord(name[i])

\* The number a sequence of digits writes.
RECURSIVE Num(_)
Num(digits) ==
    IF digits = <<>> THEN 0
    ELSE 10 * Num(SubSeq(digits, 1, Len(digits) - 1))
            + (digits[Len(digits)] - 48)

\* The instant the timestamp prefix names: year, month, day, hour, minute,
\* second.
ChronoKey(name) ==
    <<Num(SubSeq(name, 1, 4)), Num(SubSeq(name, 5, 6)),
      Num(SubSeq(name, 7, 8)), Num(SubSeq(name, 9, 10)),
      Num(SubSeq(name, 11, 12)), Num(SubSeq(name, 13, 14))>>

\* Instant a is not after instant b.
ChronoLeq(a, b) ==
    \/ a = b
    \/ \E k \in 1..Len(a) :
        /\ \A j \in 1..(k - 1) : a[j] = b[j]
        /\ a[k] < b[k]

\* The entries Migrate takes for migrations.
Candidates(d) == {n \in DOMAIN d : ~d[n].isDir /\ HasSuffix(n, SqlSuffix)}

\* How often statement i of the file has taken effect in datastore state s.
Copies(s, name, i) == CopiesIn(<<name, i>>, s.rows)

StmtsOf(name) == 1..Len(dir[name].content)

FullyApplied(s, name) == \A i \in StmtsOf(name) : Copies(s, name, i) >= 1

Untouched(s, name) == \A i \in StmtsOf(name) : Copies(s, name, i) = 0

\* The file is in the datastore as it was when the call of r began.
AsBefore(r, name) ==
    /\ Version(name) \in db.ledger <=> Version(name) \in db0[r].ledger
    /\ \A i \in StmtsOf(name) : Copies(db, name, i) = Copies(db0[r], name, i)

Quiescent == \A r \in Runners : pc[r] \in {"idle", "done"}

\* The events of kind op in the trace of r.
Events(r, op) == {i \in 1..Len(trace[r]) : trace[r][i].op = op}

\* The paths whose version the current call of r has inserted in the ledger.
Recorded(r) ==
    {trace[r][i].path : i \in {j \in Events(r, "record") :
        j = Len(trace[r]) \/ trace[r][j + 1].op # "fail"}}

\* The place in hist of the k-th call returned.
PosOfRun(k) ==
    CHOOSE p \in 1..Len(hist) :
        /\ hist[p].ev = "run"
        /\ Cardinality({q \in 1..p : hist[q].ev = "run"}) = k

\* The current call of r follows a call that returned nil, with no change of
\* the directory in between.
AfterSuccess(r) ==
    /\ runNo[r] >= 2
    /\ pc[r] # "idle"
    /\ LET p == PosOfRun(runNo[r] - 1) IN
        /\ hist[p].result = "ok"
        /\ p < Len(hist) => hist[p + 1].ev = "run"

\* ------------------------------------------------------------------ claims

\* C1: whenever no call is running, a version is in the ledger if and only
\* if every statement of its file has taken effect, and no statement of a
\* file whose version is absent has taken effect.
C1_LedgerIffApplied ==
    Quiescent =>
        \A n \in Candidates(dir) :
            /\ Version(n) \in db.ledger <=> FullyApplied(db, n)
            /\ Version(n) \notin db.ledger => Untouched(db, n)

\* C2: when the directory holds a regular .sql file whose name does not
\* match the pattern, Migrate returns an error, has executed no SQL, and
\* the ledger and the rows are as before the call.
C2_InvalidNameFailsFast ==
    \A r \in Runners :
        (/\ pc[r] = "done"
         /\ \E n \in Candidates(dir) : ~MatchesMigrationFilePattern(n))
        => /\ result[r] = "err"
           /\ Events(r, "exec") = {}
           /\ db.ledger = db0[r].ledger
           /\ db.rows = db0[r].rows

\* C3: when the execution of a file of several statements fails, no effect
\* of any statement of that file persists after Migrate returns, and its
\* version is not in the ledger.
C3_FailedFileLeavesNoEffect ==
    \A r \in Runners :
        (/\ pc[r] = "done"
         /\ Len(trace[r]) >= 2
         /\ trace[r][Len(trace[r])].op = "fail"
         /\ trace[r][Len(trace[r]) - 1].op = "exec"
         /\ Len(content[r]) > 1)
        => LET n == Base(files[r][idx[r]]) IN
            /\ \A i \in StmtsOf(n) : Copies(db, n, i) = Copies(db0[r], n, i)
            /\ Version(n) \notin db.ledger

\* C4: within one call the files are processed in the lexicographic order of
\* their names: the list is sorted, validly named files are in the order of
\* their timestamps, the k-th check is of the k-th file, and no step on a
\* file follows a step on a file that sorts after it.
C4_AppliedInFilenameOrder ==
    \A r \in Runners :
        LET names == [i \in 1..Len(files[r]) |-> Base(files[r][i])]
            valid == SelectSeq(names, MatchesMigrationFilePattern)
            touched == SelectSeq(trace[r], LAMBDA e : e.path # <<>>)
        IN  /\ \A i \in 1..(Len(names) - 1) : StrLess(names[i], names[i + 1])
            /\ \A i \in 1..(Len(valid) - 1) :
                ChronoLeq(ChronoKey(valid[i]), ChronoKey(valid[i + 1]))
            /\ \A i \in Events(r, "check") :
                LET k == Cardinality({j \in Events(r, "check") : j <= i})
                IN  k <= Len(files[r]) /\ trace[r][i].path = files[r][k]
            /\ \A i \in 1..(Len(touched) - 1) :
                \/ touched[i + 1].path = touched[i].path
                \/ ~StrLess(Base(touched[i + 1].path), Base(touched[i].path))

\* Three files applied by one call.
C4_Witness ==
    \E r \in Runners :
        /\ pc[r] = "done"
        /\ result[r] = "ok"
        /\ Cardinality(Recorded(r)) >= 3

\* C5: a call that follows a successful call, with the directory and the
\* datastore unchanged in between, reads and executes no file, leaves the
\* ledger and the rows as they were, and returns nil unless the datastore or
\* the directory cannot be reached.
C5_SecondRunIsNoOp ==
    \A r \in Runners :
        AfterSuccess(r) =>
            /\ Events(r, "read") = {}
            /\ Events(r, "exec") = {}
            /\ Events(r, "record") = {}
            /\ db.ledger = db0[r].ledger
            /\ db.rows = db0[r].rows
            /\ (pc[r] = "done" /\ ~env[r]) => result[r] = "ok"

\* A second call that skipped two files and returned nil.
C5_Witness ==
    \E r \in Runners :
        /\ AfterSuccess(r)
        /\ pc[r] = "done"
        /\ result[r] = "ok"
        /\ Cardinality(Events(r, "skip")) >= 2

\* The first call failed at the SQL of the seed file, with no fault of the
\* environment.
SeedFailed(h) ==
    /\ h.ev = "run"
    /\ h.result = "err"
    /\ h.stage = "exec"
    /\ h.path = Join(MigrationsDir, SeedSql)
    /\ ~h.env

\* C6: with files A < B < C where the SQL of B fails, the first call applies
\* and records A, fails on B and leaves C alone; once B is repaired, the
\* second call skips A, applies B and C, returns nil, and the datastore is
\* the one of a single call without failure: every statement once.
C6_ResumeAfterFix ==
    \A r \in Runners :
        (/\ pc[r] = "done"
         /\ {InitSql, SeedSql, MoreSql} \subseteq DOMAIN dir
         /\ Len(hist) >= 1
         /\ SeedFailed(hist[1]))
        => /\ Len(hist) = 1 =>
                /\ Version(InitSql) \in db.ledger
                /\ \A i \in StmtsOf(InitSql) : Copies(db, InitSql, i) = 1
                /\ Version(SeedSql) \notin db.ledger
                /\ Version(MoreSql) \notin db.ledger
                /\ Untouched(db, MoreSql)
           /\ (/\ Len(hist) = 3
               /\ hist[2] = [ev |-> "fix", name |-> SeedSql]
               /\ hist[3].ev = "run"
               /\ ~hist[3].env)
              => /\ result[r] = "ok"
                 /\ \A i \in Events(r, "exec") :
                        trace[r][i].path # Join(MigrationsDir, InitSql)
                 /\ db.ledger = {Version(n) : n \in Candidates(dir)}
                 /\ \A n \in Candidates(dir) :
                        \A i \in StmtsOf(n) : Copies(db, n, i) = 1

\* C7: no statement of a migration file takes effect more than once.
C7_AtMostOnce ==
    \A n \in Candidates(dir) : \A i \in StmtsOf(n) : Copies(db, n, i) <= 1

\* C8: a failure is the last thing a call does: Migrate has returned the
\* error, and no file after the failing one has been checked, read or
\* executed, nor has its state in the datastore changed.
C8_StopsAtFailure ==
    \A r \in Runners :
        \A i \in Events(r, "fail") :
            /\ i = Len(trace[r])
            /\ pc[r] = "done"
            /\ result[r] = "err"
            /\ \A j \in (idx[r] + 1)..Len(files[r]) :
                /\ \A e \in 1..Len(trace[r]) : trace[r][e].path # files[r][j]
                /\ AsBefore(r, Base(files[r][j]))

\* A call that failed at the SQL of a file that is not the last one.
C8_Witness ==
    \E r \in Runners :
        /\ pc[r] = "done"
        /\ result[r] = "err"
        /\ idx[r] >= 1
        /\ idx[r] < Len(files[r])
        /\ trace[r][Len(trace[r]) - 1].op = "exec"

\* C9: when Migrate has returned an error, every file it applied before the
\* failure is still recorded and applied, and so is everything that was
\* recorded and applied before the call.
C9_EarlierFilesStay ==
    \A r \in Runners :
        (pc[r] = "done" /\ result[r] = "err")
        => /\ \A p \in Recorded(r) :
                /\ Version(p) \in db.ledger
                /\ FullyApplied(db, Base(p))
           /\ db0[r].ledger \subseteq db.ledger
           /\ \A n \in Candidates(dir) : \A i \in StmtsOf(n) :
                Copies(db, n, i) >= Copies(db0[r], n, i)

\* A call that applied a file and then failed on a later one.
C9_Witness ==
    \E r \in Runners :
        /\ pc[r] = "done"
        /\ result[r] = "err"
        /\ Recorded(r) # {}

\* C10: when createMigrationsTable fails, Migrate returns the error at once:
\* the directory is not listed, no file is checked, read or executed, and
\* the datastore is as it was.
C10_TableFailureStops ==
    \A r \in Runners :
        (/\ Len(trace[r]) >= 2
         /\ trace[r][1].op = "ensure"
         /\ trace[r][2].op = "fail")
        => /\ Len(trace[r]) = 2
           /\ pc[r] = "done"
           /\ result[r] = "err"
           /\ files[r] = <<>>
           /\ db = db0[r]

\* A call that failed at the creation of the ledger table.
C10_Witness ==
    \E r \in Runners :
        /\ pc[r] = "done"
        /\ trace[r] = <<Ev("ensure", <<>>), Ev("fail", <<>>)>>

\* C11: the ledger is insert-only. No step removes a version or the table,
\* and a step that changes the ledger adds exactly one version, one that was
\* not in it.
C11_LedgerInsertOnly ==
    [][/\ db.table => db'.table
       /\ db.ledger \subseteq db'.ledger
       /\ db'.ledger # db.ledger =>
            \E v \in db'.ledger \ db.ledger : db'.ledger = db.ledger \cup {v}
      ]_vars

\* A second call has added a version to a ledger that held one already.
C11_Witness ==
    /\ runNo[1] = 2
    /\ db0[1].ledger # {}
    /\ db0[1].ledger \subseteq db.ledger
    /\ db.ledger # db0[1].ledger

\* C12: when Migrate has returned nil, the version of every .sql file of the
\* directory is in the ledger, and the versions the call added are exactly
\* the versions of the .sql files that were absent when it began.
C12_SuccessMeansAllRecorded ==
    \A r \in Runners :
        pc[r] = "done" /\ result[r] = "ok" =>
            LET all == {Version(n) : n \in Candidates(dir)} IN
            /\ all \subseteq db.ledger
            /\ db.ledger \ db0[r].ledger = all \ db0[r].ledger
            /\ {Version(p) : p \in Recorded(r)} = all \ db0[r].ledger

\* A call returned nil after adding a version to a ledger that held one.
C12_Witness ==
    /\ pc[1] = "done"
    /\ result[1] = "ok"
    /\ db0[1].ledger # {}
    /\ Recorded(1) # {}

\* C13: for a directory with no .sql file, a call that no fault of the
\* environment disturbs returns nil, and no call executes migration SQL or
\* adds a ledger row.
C13_NoFilesIsSuccess ==
    \A r \in Runners :
        Candidates(dir) = {} /\ pc[r] # "idle" =>
            /\ Events(r, "exec") = {}
            /\ Events(r, "record") = {}
            /\ db.ledger = db0[r].ledger
            /\ db.rows = db0[r].rows
            /\ pc[r] = "done" /\ ~env[r] => result[r] = "ok"

\* A call on a directory that holds a subdirectory and a README only has
\* returned nil.
C13_Witness ==
    /\ Candidates(dir) = {}
    /\ DOMAIN dir # {}
    /\ pc[1] = "done"
    /\ result[1] = "ok"
    /\ Events(1, "list") # {}

\* ------------------------------------------------------- CreateMigration

\* The instant the clock reads at 0: 2023-09-30 23:59:59 UTC.
Epoch == <<2023, 9, 30, 23, 59, 59>>

IsLeap(y) == (y % 4 = 0 /\ y % 100 # 0) \/ y % 400 = 0

DaysIn(y, m) ==
    IF m = 2 THEN (IF IsLeap(y) THEN 29 ELSE 28)
    ELSE IF m \in {4, 6, 9, 11} THEN 30 ELSE 31

\* The instant one second after t.
NextSecond(t) ==
    IF t[6] < 59 THEN [t EXCEPT ![6] = @ + 1]
    ELSE IF t[5] < 59 THEN [t EXCEPT ![5] = @ + 1, ![6] = 0]
    ELSE IF t[4] < 23 THEN [t EXCEPT ![4] = @ + 1, ![5] = 0, ![6] = 0]
    ELSE IF t[3] < DaysIn(t[1], t[2])
         THEN <<t[1], t[2], t[3] + 1, 0, 0, 0>>
    ELSE IF t[2] < 12 THEN <<t[1], t[2] + 1, 1, 0, 0, 0>>
    ELSE <<t[1] + 1, 1, 1, 0, 0, 0>>

\* time.Now().UTC() when the clock reads k.
RECURSIVE UTC(_)
UTC(k) == IF k = 0 THEN Epoch ELSE NextSecond(UTC(k - 1))

\* The decimal digits of n, zero-padded to width w.
Pad(n, w) == [i \in 1..w |-> 48 + ((n \div (10 ^ (w - i))) % 10)]

\* A layout with the day before the month.
FormatDayFirst(t) ==
    Pad(t[1], 4) \o Pad(t[3], 2) \o Pad(t[2], 2) \o Pad(t[4], 2)
        \o Pad(t[5], 2) \o Pad(t[6], 2)

\* Time.Format("20060102150405"), line 29.
Format(t) ==
    Pad(t[1], 4) \o Pad(t[2], 2) \o Pad(t[3], 2) \o Pad(t[4], 2)
        \o Pad(t[5], 2) \o Pad(t[6], 2)

\* unicode.IsSpace, for ASCII.
IsSpace(b) == b \in {9, 10, 11, 12, 13, 32}

\* strings.TrimSpace, line 19.
TrimSpace(s) ==
    LET keep == {i \in 1..Len(s) : ~IsSpace(s[i])} IN
    IF keep = {} THEN <<>>
    ELSE SubSeq(s, CHOOSE i \in keep : \A j \in keep : i <= j,
                   CHOOSE i \in keep : \A j \in keep : j <= i)

\* ^[a-zA-Z0-9_]+$, line 24.
NameOk(name) == name # <<>> /\ \A i \in 1..Len(name) : IsWord(name[i])

\* The values of --name: "", " a", "a ", "a-b", "a_1", "B".
NameFlags ==
    {<<>>, <<32, 97>>, <<97, 32>>, <<97, 45, 98>>, <<97, 95, 49>>, <<66>>}

\* The content CreateMigration writes, lines 48-52; sql tells whether the
\* developer has added SQL to it since.
Template(name, stamp) == [name |-> name, generated |-> stamp, sql |-> FALSE]

CmExit(c) == cmPc' = [cmPc EXCEPT ![c] = "exit1"]

\* CreateMigration, lines 12-36: the checks of the name, the clock read, the
\* file name and its check against migrationFilePattern.
Validate(c, n) ==
    /\ cmPc[c] = "idle"
    /\ nameFlag' = [nameFlag EXCEPT ![c] = n]
    /\ IF n = <<>> \/ TrimSpace(n) # n \/ ~NameOk(TrimSpace(n))
       THEN /\ CmExit(c)
            /\ UNCHANGED <<timestamp, filename, cmHist>>
       ELSE LET stamp == Format(UTC(clock))
                file == stamp \o <<95>> \o TrimSpace(n) \o SqlSuffix
            IN  /\ timestamp' = [timestamp EXCEPT ![c] = stamp]
                /\ filename' = [filename EXCEPT ![c] = file]
                /\ cmHist' = [cmHist EXCEPT ![c].at = UTC(clock)]
                /\ IF MatchesMigrationFilePattern(file)
                   THEN cmPc' = [cmPc EXCEPT ![c] = "stat"]
                   ELSE CmExit(c)
    /\ UNCHANGED <<clock, dirExists, fs>>

\* Lines 38-41: os.Stat of the path; no error means the file exists.
Stat(c) ==
    /\ cmPc[c] = "stat"
    /\ IF filename[c] \in DOMAIN fs
       THEN CmExit(c)
       ELSE cmPc' = [cmPc EXCEPT ![c] = "mkdir"]
    /\ UNCHANGED <<clock, dirExists, fs, nameFlag, timestamp, filename,
                   cmHist>>

\* Lines 43-46: os.MkdirAll of the directory.
MkdirAll(c) ==
    /\ cmPc[c] = "mkdir"
    /\ \E fault \in BOOLEAN :
        IF fault
        THEN /\ CmExit(c)
             /\ UNCHANGED <<dirExists, cmHist>>
        ELSE /\ dirExists' = TRUE
             /\ cmPc' = [cmPc EXCEPT ![c] = "write"]
             /\ cmHist' = [cmHist EXCEPT ![c].did =
                              IF dirExists THEN @ ELSE @ \cup {"mkdir"}]
    /\ UNCHANGED <<clock, fs, nameFlag, timestamp, filename>>

\* Lines 48-58: os.WriteFile creates the file, or truncates the one that is
\* there, and writes the content.
WriteFile(c) ==
    /\ cmPc[c] = "write"
    /\ \E fault \in BOOLEAN :
        IF fault
        THEN /\ CmExit(c)
             /\ UNCHANGED <<fs, cmHist>>
        ELSE /\ fs' = [f \in DOMAIN fs \cup {filename[c]} |->
                        IF f = filename[c]
                        THEN Template(TrimSpace(nameFlag[c]), timestamp[c])
                        ELSE fs[f]]
             /\ cmPc' = [cmPc EXCEPT ![c] = "created"]
             /\ cmHist' = [cmHist EXCEPT
                            ![c].did = @ \cup {"write"},
                            ![c].over = filename[c] \in DOMAIN fs]
    /\ UNCHANGED <<clock, dirExists, nameFlag, timestamp, filename>>

\* The developer adds SQL to a generated file.
EditFile(f) ==
    /\ f \in DOMAIN fs
    /\ ~fs[f].sql
    /\ fs' = [fs EXCEPT ![f].sql = TRUE]
    /\ UNCHANGED <<clock, dirExists, cmPc, nameFlag, timestamp, filename,
                   cmHist>>

\* A second passes.
Tick ==
    /\ clock < MaxSeconds
    /\ clock' = clock + 1
    /\ UNCHANGED <<dirExists, fs, cmPc, nameFlag, timestamp, filename,
                   cmHist>>

InitCreate ==
    /\ MigrateInit({Tree({}, <<>>)}, {"sqlite3"})
    /\ CreateInit(BOOLEAN)
    /\ CacheInit
    /\ ClientInit
    /\ ServerInit
    /\ UserInit
    /\ LockInit
    /\ BodyInit
    /\ RaceInit

\* The invocations run concurrently: each file-system call is one step.
NextCreate ==
    \/ (\E c \in Callers, n \in NameFlags : Validate(c, n))
            /\ UNCHANGED <<migrateVars, cacheVars, clientVars, serverVars,
                         userVars, lockVars,
                           bodyVars, raceVars>>
    \/ (\E c \in Callers : Stat(c))
            /\ UNCHANGED <<migrateVars, cacheVars, clientVars, serverVars,
                         userVars, lockVars,
                           bodyVars, raceVars>>
    \/ (\E c \in Callers : MkdirAll(c))
            /\ UNCHANGED <<migrateVars, cacheVars, clientVars, serverVars,
                         userVars, lockVars,
                           bodyVars, raceVars>>
    \/ (\E c \in Callers : WriteFile(c))
            /\ UNCHANGED <<migrateVars, cacheVars, clientVars, serverVars,
                         userVars, lockVars,
                           bodyVars, raceVars>>
    \/ (\E f \in DOMAIN fs : EditFile(f))
            /\ UNCHANGED <<migrateVars, cacheVars, clientVars, serverVars,
                         userVars, lockVars,
                           bodyVars, raceVars>>
    \/ Tick /\ UNCHANGED <<migrateVars, cacheVars, clientVars, serverVars,
                         userVars, lockVars,
                           bodyVars, raceVars>>

SpecCreate == InitCreate /\ [][NextCreate]_vars

\* The name is one the command must reject.
BadName(n) ==
    \/ n = <<>>
    \/ IsSpace(n[1])
    \/ IsSpace(n[Len(n)])
    \/ \E i \in 1..Len(n) : ~IsWord(n[i])

\* C14: an invocation whose name is empty, has leading or trailing
\* whitespace or a character outside [A-Za-z0-9_] exits without having
\* created a file or a directory; the file of an invocation that has created
\* one is named by the 14 digits of the UTC instant the invocation read,
\* "_", the name and ".sql", and matches the pattern of the runner.
C14_RejectsBadNamesAndNamesFiles ==
    /\ \A c \in Callers :
        /\ cmPc[c] # "idle" /\ BadName(nameFlag[c]) =>
                cmPc[c] = "exit1" /\ cmHist[c].did = {}
        /\ cmPc[c] = "created" =>
            LET f == filename[c] IN
            /\ f \in DOMAIN fs
            /\ Len(f) = TimestampLen + 1 + Len(nameFlag[c]) + Len(SqlSuffix)
            /\ \A i \in 1..TimestampLen : IsDigit(f[i])
            /\ ChronoKey(f) = cmHist[c].at
            /\ SubSeq(f, TimestampLen + 1, Len(f))
                    = <<95>> \o nameFlag[c] \o SqlSuffix
            /\ MatchesMigrationFilePattern(f)
    /\ \A f \in DOMAIN fs : MatchesMigrationFilePattern(f)

\* One invocation was rejected for its name, another has created its file
\* in a directory it made.
C14_Witness ==
    \E c, d \in Callers :
        /\ cmPc[c] = "exit1" /\ BadName(nameFlag[c])
        /\ cmPc[d] = "created" /\ cmHist[d].did = {"mkdir", "write"}
        /\ cmHist[d].at[2] # cmHist[d].at[3]

\* C15: no invocation has written over a file: an invocation that found the
\* file of its name in the directory when it wrote has failed and the file
\* is as it was.
C15_NeverOverwrites ==
    \A c \in Callers : cmPc[c] = "created" => ~cmHist[c].over

\* ------------------------------------------------------------ MemoryCache

\* The ttl of a Set, in ticks: none, one tick, two cleanup intervals.
Ttls == {0, 1, 2 * CleanupInterval * TicksPerSecond}

\* Set, lines 37-40: the expiration of an entry stored at instant t.
Expiration(t, ttl) == IF ttl > 0 THEN Unix(t + ttl) ELSE 0

\* A test of Get that takes the second of expiration for expired.
ExpiredEarly(it, t) == it.expiration > 0 /\ Unix(t) >= it.expiration

\* Get, line 61: the test at instant t.
Expired(it, t) == it.expiration > 0 /\ Unix(t) > it.expiration

\* A test that takes the second of expiration for expired.
CleanupDeletesEarly(it, sec) == it.expiration > 0 /\ sec >= it.expiration

\* cleanup, line 111: the test against the second read at line 109.
CleanupDeletes(it, sec) == it.expiration > 0 /\ sec > it.expiration

\* A store that keeps the entry a key has.
PutIfAbsent(m, k, it) ==
    [x \in DOMAIN m \cup {k} |-> IF x \in DOMAIN m THEN m[x] ELSE it]

\* c.items[key] = &item{...}, line 42.
Put(m, k, it) == [x \in DOMAIN m \cup {k} |-> IF x = k THEN it ELSE m[x]]

\* A delete that empties the map.
RemoveAll(m, k) == [x \in {} |-> 0]

\* delete(c.items, key).
Remove(m, k) == [x \in DOMAIN m \ {k} |-> m[x]]

Returned(op, k, v, e) ==
    [op |-> op, key |-> k, value |-> v, err |-> e, fresh |-> TRUE,
     removed |-> {}]

\* MemoryCache.Set, lines 33-48, under the write lock.
Set(k, v, ttl) ==
    /\ items' = Put(items, k,
                    [value |-> v, expiration |-> Expiration(now, ttl)])
    /\ ret' = Returned("set", k, "nil", "nil")
    /\ written' = [written EXCEPT ![k] =
                    [op |-> "set", value |-> v,
                     due |-> IF ttl > 0 THEN now + ttl ELSE 0,
                     over |-> k \in DOMAIN items /\ items[k].value # v]]
    /\ UNCHANGED <<now, ticker>>

\* MemoryCache.Get, lines 51-68.
Get(k) ==
    /\ IF k \notin DOMAIN items
       THEN /\ ret' = Returned("get", k, "nil", "ErrKeyNotFound")
            /\ UNCHANGED items
       ELSE IF Expired(items[k], now)
       THEN /\ items' = Remove(items, k)
            /\ ret' = Returned("get", k, "nil", "ErrKeyNotFound")
       ELSE /\ ret' = Returned("get", k, items[k].value, "nil")
            /\ UNCHANGED items
    /\ UNCHANGED <<now, ticker, written>>

\* MemoryCache.Delete, lines 71-77.
Delete(k) ==
    /\ items' = Remove(items, k)
    /\ ret' = Returned("delete", k, "nil", "nil")
    /\ written' = [written EXCEPT ![k] =
                    [op |-> "delete", value |-> "nil", due |-> 0,
                     over |-> FALSE]]
    /\ UNCHANGED <<now, ticker>>

\* cleanup, lines 107-116: one pass, once the ticker has ticked.
Cleanup ==
    /\ now >= ticker
    /\ ticker' = ticker + CleanupInterval * TicksPerSecond
    /\ LET gone == {k \in DOMAIN items : CleanupDeletes(items[k], Unix(now))}
       IN  /\ items' = [k \in DOMAIN items \ gone |-> items[k]]
           /\ ret' = [Returned("cleanup", "", "nil", "nil")
                        EXCEPT !.removed = gone]
    /\ UNCHANGED <<now, written>>

\* Time passes: one tick, or a whole cleanup interval.
Advance(d) ==
    /\ d = 1 => (now - Created) % (CleanupInterval * TicksPerSecond) < MaxSteps
    /\ d # 1 =>
        (now - Created) \div (CleanupInterval * TicksPerSecond) < MaxJumps
    /\ now' = now + d
    /\ ret' = [ret EXCEPT !.fresh = FALSE]
    /\ UNCHANGED <<items, ticker, written>>

InitCache ==
    /\ MigrateInit({Tree({}, <<>>)}, {"sqlite3"})
    /\ CreateInit({FALSE})
    /\ CacheInit
    /\ ClientInit
    /\ ServerInit
    /\ UserInit
    /\ LockInit
    /\ BodyInit
    /\ RaceInit

\* The mutex serialises the operations and the cleanup pass.
NextCache ==
    \/ (\E k \in Keys, v \in Values, ttl \in Ttls : Set(k, v, ttl))
            /\ UNCHANGED <<migrateVars, createVars, clientVars, serverVars,
                         userVars, lockVars,
                           bodyVars, raceVars>>
    \/ (\E k \in Keys : Get(k))
            /\ UNCHANGED <<migrateVars, createVars, clientVars, serverVars,
                         userVars, lockVars,
                           bodyVars, raceVars>>
    \/ (\E k \in Keys : Delete(k))
            /\ UNCHANGED <<migrateVars, createVars, clientVars, serverVars,
                         userVars, lockVars,
                           bodyVars, raceVars>>
    \/ Cleanup /\ UNCHANGED <<migrateVars, createVars, clientVars, serverVars,
                         userVars, lockVars,
                           bodyVars, raceVars>>
    \/ (\E d \in {1, CleanupInterval * TicksPerSecond} : Advance(d))
            /\ UNCHANGED <<migrateVars, createVars, clientVars, serverVars,
                         userVars, lockVars,
                           bodyVars, raceVars>>

SpecCache == InitCache /\ [][NextCache]_vars

\* The ttl of the last Set of the key had elapsed at instant t.
TtlElapsed(k, t) == written[k].due > 0 /\ t > written[k].due

\* C16: a Get of a key that was never set, that was deleted since its last
\* Set, or whose last Set had ttl > 0 and lies more than ttl back, returns
\* ErrKeyNotFound and no value.
C16_GetAfterTtlIsNotFound ==
    ret.op = "get" /\ ret.fresh =>
        (written[ret.key].op # "set" \/ TtlElapsed(ret.key, now) =>
            ret.err = "ErrKeyNotFound" /\ ret.value = "nil")

\* C17: a Get before the ttl of the key's last Set has elapsed, with no
\* Delete of the key since, returns that Set's value and a nil error; and a
\* Set leaves the entry of every other key as it is.
C17_LastWriteWins ==
    [][/\ ret'.op = "get" /\ ret'.fresh /\ written[ret'.key].op = "set"
                /\ ~TtlElapsed(ret'.key, now) =>
            ret'.err = "nil" /\ ret'.value = written[ret'.key].value
       /\ ret'.op = "set" /\ ret'.fresh =>
            \A k \in Keys \ {ret'.key} :
                /\ k \in DOMAIN items' <=> k \in DOMAIN items
                /\ k \in DOMAIN items => items'[k] = items[k]
      ]_vars

\* A Get returned the second of two values set on its key, while the other
\* key holds an entry set after it.
C17_Witness ==
    /\ ret.op = "get"
    /\ ret.err = "nil"
    /\ written[ret.key].over
    /\ \E k \in DOMAIN items \ {ret.key} :
        /\ written[k].op = "set"
        /\ items[k].expiration > 0

RetryArgs == -1..MaxRetriesArg

\* What one http.Client.Do yields: a network error and no response, or a
\* response with its status.
Outcomes ==
    {[status |-> 0, err |-> "neterr"]}
        \cup {[status |-> c, err |-> "nil"] : c \in {200, 499, 500, 503}}

\* A constructor that keeps the count it is given.
KeepRetries(m) == m

\* New, lines 23-25.
ClampRetries(m) == IF m < 0 THEN 0 ELSE m

\* A test that retries client errors too.
ReturnsBelow400(out) == out.err = "nil" /\ out.status < 400

\* Do, line 113: the attempt ends the call.
Returns(out) == out.err = "nil" /\ out.status < 500

\* A wait that doubles.
BackoffDoubling(a) == 2 ^ a

\* Do, line 118: the seconds slept after attempt a, counted from 0.
Backoff(a) == a + 1

Sent(out) == [do |-> "send", status |-> out.status, err |-> out.err,
              secs |-> 0]

Slept(secs) == [do |-> "sleep", status |-> 0, err |-> "nil", secs |-> secs]

\* New, lines 19-33.
New(m) ==
    /\ hcPc = "new"
    /\ config' = [MaxRetries |-> ClampRetries(m)]
    /\ hcPc' = "ready"
    /\ UNCHANGED <<reqOpts, retries, attempt, reply, log, call, jsonRet>>

\* A choice that takes every count from 0 on.
RetriesFromZero(r, max) == IF r >= 0 THEN r ELSE max

\* Do, lines 105-108.
RetriesFor(r, max) == IF r > 0 THEN r ELSE max

\* The ways to call: Do or a JSON method, the latter with a result or nil.
Calls ==
    {[withRetries |-> w, json |-> j, result |-> res] :
        w \in BOOLEAN, j \in BOOLEAN, res \in BOOLEAN}

\* Do, lines 77-110, called directly or at the head of a JSON method (lines
\* 152, 175, 199, 223, 247): the options are applied (WithRetries(r), lines
\* 63-67, if it is among them) and the request is built; http.NewRequest
\* rejects a malformed method or URL.
Do(c, r, valid) ==
    /\ hcPc \in {"ready", "done"}
    /\ jsonRet # "pending"
    /\ c.withRetries \/ r = 0
    /\ c.json \/ ~c.result
    /\ call' = c
    /\ jsonRet' = IF c.json THEN "pending" ELSE "none"
    /\ reqOpts' = [Retries |-> r, valid |-> valid]
    /\ log' = <<>>
    /\ IF ~valid
       THEN /\ reply' = [status |-> 0, err |-> "badreq"]
            /\ hcPc' = "done"
            /\ UNCHANGED <<retries, attempt>>
       ELSE /\ retries' = RetriesFor(r, config.MaxRetries)
            /\ attempt' = 0
            /\ reply' = [status |-> 0, err |-> "nil"]
            /\ hcPc' = "loop"
    /\ UNCHANGED config

\* Do, lines 111-117 and 120: one attempt.
Send(out) ==
    /\ hcPc = "loop"
    /\ attempt <= retries
    /\ reply' = out
    /\ log' = Append(log, Sent(out))
    /\ IF Returns(out)
       THEN hcPc' = "done" /\ UNCHANGED attempt
       ELSE IF attempt < retries
       THEN hcPc' = "sleep" /\ UNCHANGED attempt
       ELSE hcPc' = "loop" /\ attempt' = attempt + 1
    /\ UNCHANGED <<config, reqOpts, retries, call, jsonRet>>

\* Do, lines 118-120: the sleep before the next attempt.
Sleep ==
    /\ hcPc = "sleep"
    /\ log' = Append(log, Slept(Backoff(attempt)))
    /\ attempt' = attempt + 1
    /\ hcPc' = "loop"
    /\ UNCHANGED <<config, reqOpts, retries, reply, call, jsonRet>>

\* Do, lines 111 and 122: the loop is over, resp and err are returned.
GiveUp ==
    /\ hcPc = "loop"
    /\ attempt > retries
    /\ hcPc' = "done"
    /\ UNCHANGED <<config, reqOpts, retries, attempt, reply, log, call,
                   jsonRet>>

\* A check that trusts the error of Do alone.
StatusAny(status) == TRUE

\* GetJSON, line 158 (and 181, 205, 229, 253).
StatusOk(status) == ~(status < 200 \/ status >= 300)

\* GetJSON, lines 153-170, and the same lines of DeleteJSON, PostJSON,
\* PutJSON and PatchJSON: what the method returns once Do has returned;
\* reading the body and parsing it can each fail.
ReturnJSON(readOk, parses) ==
    /\ hcPc = "done"
    /\ jsonRet = "pending"
    /\ jsonRet' =
        IF reply.err # "nil" THEN reply.err
        ELSE IF ~StatusOk(reply.status) THEN "HTTP error"
        ELSE IF ~readOk THEN "failed to read response body"
        ELSE IF call.result /\ ~parses THEN "unmarshal error"
        ELSE "nil"
    /\ UNCHANGED <<config, reqOpts, hcPc, retries, attempt, reply, log, call>>

InitClient ==
    /\ MigrateInit({Tree({}, <<>>)}, {"sqlite3"})
    /\ CreateInit({FALSE})
    /\ CacheInit
    /\ ClientInit
    /\ ServerInit
    /\ UserInit
    /\ LockInit
    /\ BodyInit
    /\ RaceInit

NextClient ==
    \/ (\E m \in RetryArgs : New(m))
            /\ UNCHANGED <<migrateVars, createVars, cacheVars, serverVars,
                         userVars, lockVars,
                           bodyVars, raceVars>>
    \/ (\E c \in Calls, r \in RetryArgs, valid \in BOOLEAN :
            Do(c, r, valid))
            /\ UNCHANGED <<migrateVars, createVars, cacheVars, serverVars,
                         userVars, lockVars,
                           bodyVars, raceVars>>
    \/ (\E readOk \in BOOLEAN, parses \in BOOLEAN :
            ReturnJSON(readOk, parses))
            /\ UNCHANGED <<migrateVars, createVars, cacheVars, serverVars,
                         userVars, lockVars,
                           bodyVars, raceVars>>
    \/ (\E out \in Outcomes : Send(out))
            /\ UNCHANGED <<migrateVars, createVars, cacheVars, serverVars,
                         userVars, lockVars,
                           bodyVars, raceVars>>
    \/ Sleep /\ UNCHANGED <<migrateVars, createVars, cacheVars, serverVars,
                         userVars, lockVars,
                           bodyVars, raceVars>>
    \/ GiveUp /\ UNCHANGED <<migrateVars, createVars, cacheVars, serverVars,
                         userVars, lockVars,
                           bodyVars, raceVars>>

SpecClient == InitClient /\ [][NextClient]_vars

\* The attempts of the current call, in order.
Sends == SelectSeq(log, LAMBDA e : e.do = "send")

\* The attempt met a network error or a 5xx response.
Failed(e) == e.err # "nil" \/ e.status >= 500

\* The retry count in force for the current call.
Effective ==
    IF reqOpts.Retries > 0 THEN reqOpts.Retries ELSE config.MaxRetries

\* A call whose request was built.
InDo == hcPc \in {"loop", "sleep", "done"} /\ reqOpts.valid

Exhausted == hcPc = "done" /\ Sends # <<>> /\ Failed(Sends[Len(Sends)])

\* C21 as stated: a call with WithRetries(n), n >= 0, uses n retries, so
\* that it makes at most n+1 attempts and exactly n+1 when all fail; a call
\* without WithRetries uses the MaxRetries of the client.
C21_WithRetriesOverrides ==
    InDo =>
        LET n == IF call.withRetries /\ reqOpts.Retries >= 0
                 THEN reqOpts.Retries ELSE config.MaxRetries
        IN  (call.withRetries => reqOpts.Retries >= 0) =>
                /\ retries = n
                /\ Len(Sends) <= n + 1
                /\ Exhausted => Len(Sends) = n + 1

\* C21, amended: WithRetries(n) overrides the MaxRetries of the client for
\* n > 0 only; a call with WithRetries(n), n <= 0, and a call without
\* WithRetries use MaxRetries.
C21_PositiveRetriesOverride ==
    InDo =>
        LET n == IF call.withRetries /\ reqOpts.Retries > 0
                 THEN reqOpts.Retries ELSE config.MaxRetries
        IN  /\ retries = n
            /\ Len(Sends) <= n + 1
            /\ Exhausted => Len(Sends) = n + 1

\* A call with WithRetries(0) on a client with MaxRetries = 3 has made four
\* attempts.
C21_Witness ==
    /\ InDo
    /\ call.withRetries
    /\ reqOpts.Retries = 0
    /\ config.MaxRetries = 3
    /\ Exhausted
    /\ Len(Sends) = 4

\* C22: a JSON method that has returned nil got a response with a status in
\* 200..299 and a nil error from Do; it has returned an error for every
\* error of Do and for every response outside 200..299, the 5xx response
\* of the last of the attempts included.
C22_JSONErrors ==
    call.json /\ jsonRet \notin {"none", "pending"} =>
        /\ jsonRet = "nil" =>
            /\ reply.err = "nil"
            /\ reply.status >= 200 /\ reply.status <= 299
            /\ reqOpts.valid
        /\ reply.err # "nil" => jsonRet # "nil"
        /\ reply.status < 200 \/ reply.status > 299 => jsonRet # "nil"
        /\ Exhausted => jsonRet # "nil"

\* A JSON method has returned an error for the 503 that Do returned with a
\* nil error after its retries.
C22_Witness ==
    /\ call.json
    /\ jsonRet = "HTTP error"
    /\ Exhausted
    /\ Len(Sends) >= 2
    /\ reply = [status |-> 503, err |-> "nil"]

\* ------------------------------------------------------------ httpserver

\* context.WithValue
WithValue(c, k, v) ==
    [x \in DOMAIN c \cup {k} |-> IF x = k THEN v ELSE c[x]]

\* ctx.Value(k): nil, or one value.
Value(c, k) == IF k \in DOMAIN c THEN {c[k]} ELSE {}

\* GetRouteName, GetRouteMethod, GetRoutePath, GetAuthType, lines 93-123.
GetString(c, k) == IF Value(c, k) # {} THEN c[k] ELSE ""

\* GetRequestAuth, lines 125-133: nil, or the RequestAuth of the context.
GetRequestAuth(c) == Value(c, RequestAuthKey)

\* A closure that authenticates the documented auth types only.
NeedsAuthKnown(t) == t \in {"basic", "bearer"}

\* wrapHandler, line 41.
NeedsAuth(t) == t # "none"

\* A closure that puts no route metadata in the context.
InjectRouteNothing(c, rt) == c

\* wrapHandler, lines 59-62.
InjectRoute(c, rt) ==
    WithValue(WithValue(WithValue(WithValue(c,
        RouteNameKey, rt.Name),
        RouteMethodKey, rt.Method),
        RoutePathKey, rt.Path),
        AuthTypeKey, rt.AuthType)

\* A closure that puts a RequestAuth in every context.
InjectAuthAlways(c, ra) ==
    WithValue(c, RequestAuthKey,
              IF ra = {} THEN ZeroAuth ELSE CHOOSE a \in ra : TRUE)

\* wrapHandler, lines 63-65.
InjectAuth(c, ra) ==
    IF ra # {} THEN WithValue(c, RequestAuthKey, CHOOSE a \in ra : TRUE)
    ELSE c

Did(q, what) == steps' = [steps EXCEPT ![q] = Append(@, what)]

\* New, lines 20-26: authCallback is a function, or nil.
NewServer(cb) ==
    /\ server = {}
    /\ server' = {[authCallback |-> cb]}
    /\ UNCHANGED <<whPc, route, cbRet, requestAuth, ctx, response, steps,
                   seen>>

\* The router calls the closure Register made for the route, lines 29-31
\* and 35-38.
Arrive(q, rt) ==
    /\ server # {}
    /\ whPc[q] = "idle"
    /\ whPc' = [whPc EXCEPT ![q] = "auth"]
    /\ route' = [route EXCEPT ![q] = rt]
    /\ UNCHANGED <<server, cbRet, requestAuth, ctx, response, steps, seen>>

\* wrapHandler, lines 41-53.
Authenticate(q, authenticated, auth) ==
    /\ whPc[q] = "auth"
    /\ LET s == CHOOSE x \in server : TRUE IN
       IF ~NeedsAuth(route[q].AuthType)
       THEN /\ whPc' = [whPc EXCEPT ![q] = "log"]
            /\ UNCHANGED <<cbRet, requestAuth, response, steps>>
       ELSE IF ~s.authCallback
       THEN /\ response' = [response EXCEPT ![q] = 500]
            /\ Did(q, "error")
            /\ whPc' = [whPc EXCEPT ![q] = "done"]
            /\ UNCHANGED <<cbRet, requestAuth>>
       ELSE /\ cbRet' = [cbRet EXCEPT ![q] =
                            {[authenticated |-> authenticated, auth |-> auth]}]
            /\ IF ~authenticated
               THEN /\ response' = [response EXCEPT ![q] = 401]
                    /\ steps' = [steps EXCEPT ![q] =
                                    @ \o <<"callback", "error">>]
                    /\ whPc' = [whPc EXCEPT ![q] = "done"]
                    /\ UNCHANGED requestAuth
               ELSE /\ requestAuth' = [requestAuth EXCEPT ![q] = {auth}]
                    /\ Did(q, "callback")
                    /\ whPc' = [whPc EXCEPT ![q] = "log"]
                    /\ UNCHANGED response
    /\ UNCHANGED <<server, route, ctx, seen>>

\* wrapHandler, line 56.
LogRequest(q) ==
    /\ whPc[q] = "log"
    /\ Did(q, "log")
    /\ whPc' = [whPc EXCEPT ![q] = "inject"]
    /\ UNCHANGED <<server, route, cbRet, requestAuth, ctx, response, seen>>

\* wrapHandler, lines 59-65.
InjectContext(q) ==
    /\ whPc[q] = "inject"
    /\ ctx' = [ctx EXCEPT ![q] =
                InjectAuth(InjectRoute(@, route[q]), requestAuth[q])]
    /\ Did(q, "inject")
    /\ whPc' = [whPc EXCEPT ![q] = "handle"]
    /\ UNCHANGED <<server, route, cbRet, requestAuth, response, seen>>

\* wrapHandler, line 68: the handler runs with ctx and writes its response.
Handle(q) ==
    /\ whPc[q] = "handle"
    /\ seen' = [seen EXCEPT ![q] = {ctx[q]}]
    /\ response' = [response EXCEPT ![q] = 200]
    /\ Did(q, "handle")
    /\ whPc' = [whPc EXCEPT ![q] = "done"]
    /\ UNCHANGED <<server, route, cbRet, requestAuth, ctx>>

InitServer ==
    /\ MigrateInit({Tree({}, <<>>)}, {"sqlite3"})
    /\ CreateInit({FALSE})
    /\ CacheInit
    /\ ClientInit
    /\ ServerInit
    /\ UserInit
    /\ LockInit
    /\ BodyInit
    /\ RaceInit

\* net/http serves each request in its own goroutine.
NextServer ==
    \/ (\E cb \in BOOLEAN : NewServer(cb))
            /\ UNCHANGED <<migrateVars, createVars, cacheVars, clientVars,
                           userVars, lockVars,
                           bodyVars, raceVars>>
    \/ (\E q \in Requests, rt \in Routes : Arrive(q, rt))
            /\ UNCHANGED <<migrateVars, createVars, cacheVars, clientVars,
                           userVars, lockVars,
                           bodyVars, raceVars>>
    \/ (\E q \in Requests, ok \in BOOLEAN, auth \in Auths :
            Authenticate(q, ok, auth))
            /\ UNCHANGED <<migrateVars, createVars, cacheVars, clientVars,
                           userVars, lockVars,
                           bodyVars, raceVars>>
    \/ (\E q \in Requests : LogRequest(q))
            /\ UNCHANGED <<migrateVars, createVars, cacheVars, clientVars,
                           userVars, lockVars,
                           bodyVars, raceVars>>
    \/ (\E q \in Requests : InjectContext(q))
            /\ UNCHANGED <<migrateVars, createVars, cacheVars, clientVars,
                           userVars, lockVars,
                           bodyVars, raceVars>>
    \/ (\E q \in Requests : Handle(q))
            /\ UNCHANGED <<migrateVars, createVars, cacheVars, clientVars,
                           userVars, lockVars,
                           bodyVars, raceVars>>

SpecServer == InitServer /\ [][NextServer]_vars

\* The positions of what in the steps of request q.
StepsOf(q, what) == {i \in 1..Len(steps[q]) : steps[q][i] = what}

\* The handler of request q has been invoked.
Handled(q) == StepsOf(q, "handle") # {}

\* The callback was called for request q and returned true.
CallbackAccepted(q) == \E c \in cbRet[q] : c.authenticated

\* The callback was called for request q and returned false.
CallbackRejected(q) == \E c \in cbRet[q] : ~c.authenticated

\* C23: on a route whose AuthType is not "none", the empty string and
\* unknown types included, the handler is invoked only if the auth callback
\* was called for that request and returned true; when the callback has
\* returned false the response is 401 and the handler is never invoked.
C23_HandlerOnlyWhenAuthenticated ==
    \A q \in Requests :
        /\ (route[q].AuthType # "none" /\ Handled(q)) =>
                /\ CallbackAccepted(q)
                /\ "callback" \in {steps[q][i] : i \in 1..Len(steps[q])}
        /\ CallbackRejected(q) =>
                /\ whPc[q] = "done"
                /\ response[q] = 401
                /\ ~Handled(q)

\* A request on the route of the empty auth type was handled after the
\* callback accepted it, and one on the route of the unknown type was
\* answered 401.
C23_Witness ==
    \E q, p \in Requests :
        /\ whPc[q] # "idle" /\ route[q].AuthType = ""
        /\ Handled(q) /\ CallbackAccepted(q)
        /\ whPc[p] # "idle" /\ route[p].AuthType = "jwt"
        /\ CallbackRejected(p) /\ response[p] = 401

\* The route metadata of request q is in context c.
HasRouteMetadata(c, q) ==
    /\ GetString(c, RouteNameKey) = route[q].Name
    /\ GetString(c, RouteMethodKey) = route[q].Method
    /\ GetString(c, RoutePathKey) = route[q].Path
    /\ GetString(c, AuthTypeKey) = route[q].AuthType
    /\ {RouteNameKey, RouteMethodKey, RoutePathKey, AuthTypeKey}
            \subseteq DOMAIN c

\* The steps of a request that reaches the handler, in order.
FullChain(q) ==
    IF NeedsAuth(route[q].AuthType)
    THEN <<"callback", "log", "inject", "handle">>
    ELSE <<"log", "inject", "handle">>

IsPrefix(a, b) == Len(a) <= Len(b) /\ SubSeq(b, 1, Len(a)) = a

C25_RequestAuthInContext ==
    \A q \in Requests :
        /\ (whPc[q] # "idle" /\ route[q].AuthType = "none") =>
                /\ cbRet[q] = {}
                /\ \A c \in seen[q] : GetRequestAuth(c) = {}
        /\ (whPc[q] # "idle" /\ route[q].AuthType # "none") =>
                \A c \in seen[q] :
                    GetRequestAuth(c) = {r.auth : r \in cbRet[q]}

\* One request was handled on the route with AuthType "none", and another on
\* the bearer route with the identity of a client from the callback.
C25_Witness ==
    \E q, p \in Requests :
        /\ Handled(q) /\ route[q].AuthType = "none"
        /\ Handled(p) /\ route[p].AuthType = "bearer"
        /\ \E c \in seen[p] : GetRequestAuth(c) # {ZeroAuth}
        /\ \E c \in seen[p] : GetRequestAuth(c) # {}

\* ---------------------------------------------------------- user service

\* strconv.Itoa, for n >= 0: the decimal digits the service prints an id
\* with.
RECURSIVE Itoa(_)
Itoa(n) == IF n < 10 THEN <<48 + n>> ELSE Itoa(n \div 10) \o <<48 + (n % 10)>>

\* strconv.Atoi: an optional sign, then one decimal digit or more.
Atoi(str) ==
    LET signed == str # <<>> /\ str[1] \in {43, 45}
        digits == IF signed THEN Tail(str) ELSE str
        ok == digits # <<>> /\ \A i \in 1..Len(digits) : IsDigit(digits[i])
    IN  IF ~ok THEN [err |-> TRUE, n |-> 0]
        ELSE [err |-> FALSE,
              n |-> IF str[1] = 45 THEN 0 - Num(digits) ELSE Num(digits)]

\* "users:list"
UsersListKey == <<117, 115, 101, 114, 115, 58, 108, 105, 115, 116>>

\* A key made of the parsed id.
UserKeyOfId(idStr) == <<117, 115, 101, 114, 58>> \o Itoa(Atoi(idStr).n)

\* "user:" + idStr, lines 124, 278 and 320.
UserKey(idStr) == <<117, 115, 101, 114, 58>> \o idStr

\* What the route /users/{id} matches for {id}: the ids the service gives
\* and the next one, the first id written with a leading zero, and a word.
IdStrs ==
    {Itoa(i) : i \in 1..(MaxUsers + 1)} \cup {<<48>> \o Itoa(1), <<120>>}

\* The names of users. A body is one that does not decode, one without
\* fields, or one with a name.
Names == {"n1", "n2"}
Bodies == {"invalid", "empty"} \cup Names

Handlers == {"GetUsers", "GetUser", "CreateUser", "UpdateUser", "DeleteUser"}

\* MemoryCache.Set and MemoryCache.Delete on the contents of the cache.
CacheSet(c, k, v) == [x \in DOMAIN c \cup {k} |-> IF x = k THEN v ELSE c[x]]
CacheDelete(c, k) == [x \in DOMAIN c \ {k} |-> c[x]]

Finish(status) ==
    /\ ustatus' = status
    /\ uhPc' = "done"

\* The router calls a handler.
Request(h, idStr, body) ==
    /\ uhPc \in {"idle", "done"}
    /\ h \in {"GetUsers", "CreateUser"} <=> idStr = <<>>
    /\ h \in {"CreateUser", "UpdateUser"} <=> body # "none"
    /\ ureq' = [handler |-> h, idStr |-> idStr, body |-> body]
    /\ uhPc' = "run"
    /\ ustatus' = 0
    /\ usteps' = <<>>
    /\ cache0' = cache
    /\ UNCHANGED <<users, lastId, cache>>

\* GetUsers, lines 65-106.
GetUsers(fault) ==
    /\ uhPc = "run" /\ ureq.handler = "GetUsers"
    /\ IF UsersListKey \in DOMAIN cache
       THEN Finish(200) /\ UNCHANGED cache
       ELSE IF fault
       THEN Finish(500) /\ UNCHANGED cache
       ELSE Finish(200) /\ cache' = CacheSet(cache, UsersListKey, users)
    /\ UNCHANGED <<users, lastId, ureq, usteps, cache0>>

\* GetUser, lines 109-158.
GetUser(fault) ==
    /\ uhPc = "run" /\ ureq.handler = "GetUser"
    /\ LET id == Atoi(ureq.idStr)
           cacheKey == UserKey(ureq.idStr)
       IN  IF id.err
           THEN Finish(400) /\ UNCHANGED cache
           ELSE IF cacheKey \in DOMAIN cache
           THEN Finish(200) /\ UNCHANGED cache
           ELSE IF fault
           THEN Finish(500) /\ UNCHANGED cache
           ELSE IF id.n \notin DOMAIN users
           THEN Finish(404) /\ UNCHANGED cache
           ELSE Finish(200) /\ cache' = CacheSet(cache, cacheKey, users[id.n])
    /\ UNCHANGED <<users, lastId, ureq, usteps, cache0>>

\* The write of the handler is done: the cache is cleared next.
Written ==
    /\ uhPc' = "clearList"
    /\ usteps' = <<"db">>
    /\ UNCHANGED ustatus

\* CreateUser, lines 161-191.
CreateUser(fault) ==
    /\ uhPc = "run" /\ ureq.handler = "CreateUser"
    /\ IF ureq.body \in {"invalid", "empty"}
       THEN Finish(400) /\ UNCHANGED <<users, lastId, usteps>>
       ELSE IF fault
       THEN Finish(500) /\ UNCHANGED <<users, lastId, usteps>>
       ELSE /\ lastId < MaxUsers
            /\ lastId' = lastId + 1
            /\ users' = [i \in DOMAIN users \cup {lastId + 1} |->
                            IF i = lastId + 1 THEN ureq.body ELSE users[i]]
            /\ Written
    /\ UNCHANGED <<cache, ureq, cache0>>

\* UpdateUser, lines 213-274.
UpdateUser(fault) ==
    /\ uhPc = "run" /\ ureq.handler = "UpdateUser"
    /\ LET id == Atoi(ureq.idStr) IN
       IF id.err \/ ureq.body \in {"invalid", "empty"}
       THEN Finish(400) /\ UNCHANGED <<users, usteps>>
       ELSE IF fault
       THEN Finish(500) /\ UNCHANGED <<users, usteps>>
       ELSE IF id.n \notin DOMAIN users
       THEN Finish(404) /\ UNCHANGED <<users, usteps>>
       ELSE /\ users' = [users EXCEPT ![id.n] = ureq.body]
            /\ Written
    /\ UNCHANGED <<lastId, cache, ureq, cache0>>

\* DeleteUser, lines 287-316.
DeleteUser(fault) ==
    /\ uhPc = "run" /\ ureq.handler = "DeleteUser"
    /\ LET id == Atoi(ureq.idStr) IN
       IF id.err
       THEN Finish(400) /\ UNCHANGED <<users, usteps>>
       ELSE IF fault
       THEN Finish(500) /\ UNCHANGED <<users, usteps>>
       ELSE IF id.n \notin DOMAIN users
       THEN Finish(404) /\ UNCHANGED <<users, usteps>>
       ELSE /\ users' = [i \in DOMAIN users \ {id.n} |-> users[i]]
            /\ Written
    /\ UNCHANGED <<lastId, cache, ureq, cache0>>

\* h.cache.Delete("users:list"), lines 194, 277 and 319.
ClearList ==
    /\ uhPc = "clearList"
    /\ cache' = CacheDelete(cache, UsersListKey)
    /\ usteps' = Append(usteps, "delete list")
    /\ uhPc' = IF ureq.handler = "CreateUser" THEN "respond" ELSE "clearUser"
    /\ UNCHANGED <<users, lastId, ureq, ustatus, cache0>>

\* h.cache.Delete("user:" + idStr), lines 278 and 320.
ClearUser ==
    /\ uhPc = "clearUser"
    /\ cache' = CacheDelete(cache, UserKey(ureq.idStr))
    /\ usteps' = Append(usteps, "delete user")
    /\ uhPc' = "respond"
    /\ UNCHANGED <<users, lastId, ureq, ustatus, cache0>>

\* The response of a write that succeeded, lines 207-209, 282-283 and
\* 324-325.
Respond ==
    /\ uhPc = "respond"
    /\ Finish(IF ureq.handler = "CreateUser" THEN 201 ELSE 200)
    /\ usteps' = Append(usteps, "respond")
    /\ UNCHANGED <<users, lastId, cache, ureq, cache0>>

InitUser ==
    /\ MigrateInit({Tree({}, <<>>)}, {"sqlite3"})
    /\ CreateInit({FALSE})
    /\ CacheInit
    /\ ClientInit
    /\ ServerInit
    /\ UserInit
    /\ LockInit
    /\ BodyInit
    /\ RaceInit

NextUser ==
    \/ (\E h \in Handlers, idStr \in IdStrs \cup {<<>>},
           body \in Bodies \cup {"none"} : Request(h, idStr, body))
            /\ UNCHANGED <<migrateVars, createVars, cacheVars, clientVars,
                           serverVars, lockVars,
                           bodyVars, raceVars>>
    \/ (\E fault \in BOOLEAN : GetUsers(fault))
            /\ UNCHANGED <<migrateVars, createVars, cacheVars, clientVars,
                           serverVars, lockVars,
                           bodyVars, raceVars>>
    \/ (\E fault \in BOOLEAN : GetUser(fault))
            /\ UNCHANGED <<migrateVars, createVars, cacheVars, clientVars,
                           serverVars, lockVars,
                           bodyVars, raceVars>>
    \/ (\E fault \in BOOLEAN : CreateUser(fault))
            /\ UNCHANGED <<migrateVars, createVars, cacheVars, clientVars,
                           serverVars, lockVars,
                           bodyVars, raceVars>>
    \/ (\E fault \in BOOLEAN : UpdateUser(fault))
            /\ UNCHANGED <<migrateVars, createVars, cacheVars, clientVars,
                           serverVars, lockVars,
                           bodyVars, raceVars>>
    \/ (\E fault \in BOOLEAN : DeleteUser(fault))
            /\ UNCHANGED <<migrateVars, createVars, cacheVars, clientVars,
                           serverVars, lockVars,
                           bodyVars, raceVars>>
    \/ ClearList /\ UNCHANGED <<migrateVars, createVars, cacheVars,
                                clientVars, serverVars, lockVars,
                           bodyVars, raceVars>>
    \/ ClearUser /\ UNCHANGED <<migrateVars, createVars, cacheVars,
                                clientVars, serverVars, lockVars,
                           bodyVars, raceVars>>
    \/ Respond /\ UNCHANGED <<migrateVars, createVars, cacheVars, clientVars,
                              serverVars, lockVars,
                           bodyVars, raceVars>>

SpecUser == InitUser /\ [][NextUser]_vars

\* C26: a CreateUser that succeeded has deleted "users:list"; an UpdateUser
\* or DeleteUser of user id that succeeded has deleted "users:list" and
\* "user:<id>"; the deletes come after the database write and before the
\* response; a write that failed or found no user has left the cache as it
\* was.
C26_WritesClearCache ==
    /\ (uhPc = "done" /\ ureq.handler = "CreateUser" /\ ustatus = 201) =>
            /\ UsersListKey \notin DOMAIN cache
            /\ usteps = <<"db", "delete list", "respond">>
    /\ (uhPc = "done" /\ ureq.handler \in {"UpdateUser", "DeleteUser"}
                /\ ustatus = 200) =>
            /\ UsersListKey \notin DOMAIN cache
            /\ UserKeyOfId(ureq.idStr) \notin DOMAIN cache
            /\ usteps = <<"db", "delete list", "delete user", "respond">>
    /\ (uhPc = "done"
                /\ ureq.handler \in {"CreateUser", "UpdateUser", "DeleteUser"}
                /\ ustatus \notin {200, 201}) =>
            cache = cache0

\* --------------------------------------- the migration runner, continued

\* The path of the file the current call of r is in runMigration for.
Current(r) == files[r][idx[r]]

\* The current call of r has returned the error of the ledger insert of
\* path, after the SQL of the file was executed without error.
RecordFailed(r, path) ==
    /\ pc[r] = "done"
    /\ result[r] = "err"
    /\ Len(trace[r]) >= 3
    /\ SubSeq(trace[r], Len(trace[r]) - 2, Len(trace[r]))
            = <<Ev("exec", path), Ev("record", path), Ev("fail", path)>>

\* C27: when the SQL of a file was executed without error and the ledger
\* insert that follows has failed, Migrate has returned the error and the
\* effects of the file are rolled back: its statements and its version are
\* in the datastore as they were before the file was attempted.
C27_InsertFailureRollsBack ==
    \A r \in Runners : \A n \in DOMAIN dir :
        RecordFailed(r, Join(MigrationsDir, n)) => AsBefore(r, n)

\* C28: the ledger check, the execution of the SQL and the ledger insert of
\* a file are one transaction: until the insert is done and committed, the
\* datastore other connections read shows the file as it was before the
\* check.
C28_OneTransactionPerFile ==
    \A r \in Runners :
        pc[r] \in {"read", "exec", "record"} => AsBefore(r, Base(Current(r)))

\* The current call of r has made the ledger check of path and found the
\* version absent, as the last thing it did about the ledger.
CheckedAbsent(r, path) ==
    \E i \in Events(r, "check") :
        /\ trace[r][i].path = path
        /\ \A j \in (i + 1)..Len(trace[r]) :
                trace[r][j].op \in {"read", "exec"} /\ trace[r][j].path = path

\* A call has returned the error of a ledger insert that no fault of the
\* environment caused: the primary key has rejected the version.
UniquenessViolation(h) ==
    h.ev = "run" /\ h.result = "err" /\ h.stage = "record" /\ ~h.env

\* C29: with a single runner as the only writer the ledger insert never
\* fails with a uniqueness violation: a call that is about to insert a
\* version has found it absent at the check it made for the same file, and
\* the version is still absent.
C29_SingleRunnerNeverConflicts ==
    /\ \A k \in 1..Len(hist) : ~UniquenessViolation(hist[k])
    /\ \A r \in Runners :
        pc[r] \in {"read", "exec", "record"} =>
            /\ CheckedAbsent(r, Current(r))
            /\ ~LedgerHas(db.ledger, Version(Current(r)))

\* A second call is about to insert a version, with the versions of the
\* first call in the ledger.
C29_Witness ==
    /\ pc[1] = "record"
    /\ runNo[1] = 2
    /\ db.ledger # {}
    /\ \E k \in 1..Len(hist) : hist[k].ev = "run"

\* The directories two concurrent runners are given: files whose SQL is
\* valid.
TwoTrees == {Tree({MoreSql}, <<>>), Tree({InitSql}, <<>>)}

InitTwo ==
    /\ MigrateInit(TwoTrees, {"sqlite3"})
    /\ CreateInit({FALSE})
    /\ CacheInit
    /\ ClientInit
    /\ ServerInit
    /\ UserInit
    /\ LockInit
    /\ BodyInit
    /\ RaceInit

\* Two runners, each a process of its own with its own connection: every
\* statement sent to the datastore is one step.
NextTwo ==
    \/ (\E r \in Runners : Start(r))
            /\ UNCHANGED <<createVars, cacheVars, clientVars, serverVars,
                           userVars, lockVars,
                           bodyVars, raceVars>>
    \/ (\E r \in Runners : EnsureTable(r))
            /\ UNCHANGED <<createVars, cacheVars, clientVars, serverVars,
                           userVars, lockVars,
                           bodyVars, raceVars>>
    \/ (\E r \in Runners : ListFiles(r))
            /\ UNCHANGED <<createVars, cacheVars, clientVars, serverVars,
                           userVars, lockVars,
                           bodyVars, raceVars>>
    \/ (\E r \in Runners : Complete(r))
            /\ UNCHANGED <<createVars, cacheVars, clientVars, serverVars,
                           userVars, lockVars,
                           bodyVars, raceVars>>
    \/ (\E r \in Runners : CheckApplied(r))
            /\ UNCHANGED <<createVars, cacheVars, clientVars, serverVars,
                           userVars, lockVars,
                           bodyVars, raceVars>>
    \/ (\E r \in Runners : ReadFile(r))
            /\ UNCHANGED <<createVars, cacheVars, clientVars, serverVars,
                           userVars, lockVars,
                           bodyVars, raceVars>>
    \/ (\E r \in Runners : ExecSQL(r))
            /\ UNCHANGED <<createVars, cacheVars, clientVars, serverVars,
                           userVars, lockVars,
                           bodyVars, raceVars>>
    \/ (\E r \in Runners : Record(r))
            /\ UNCHANGED <<createVars, cacheVars, clientVars, serverVars,
                           userVars, lockVars,
                           bodyVars, raceVars>>

SpecTwo == InitTwo /\ [][NextTwo]_vars

\* The current call of r has made the ledger check of path and found the
\* version absent.
PassedCheck(r, path) ==
    \E i \in Events(r, "check") :
        /\ trace[r][i].path = path
        /\ i < Len(trace[r]) => trace[r][i + 1].op \notin {"skip", "fail"}

\* The current call of r has executed the SQL of path; without error.
Executed(r, path) ==
    \E i \in Events(r, "exec") : trace[r][i].path = path
ExecutedOk(r, path) ==
    \E i \in Events(r, "exec") :
        /\ trace[r][i].path = path
        /\ i < Len(trace[r]) => trace[r][i + 1].op # "fail"

\* The current call of r has returned the error of the ledger insert of
\* path, which no fault of the environment caused.
FailedOnPrimaryKey(r, path) == RecordFailed(r, path) /\ ~env[r]

\* Both runners have passed the ledger check of path in calls that have
\* returned and that no fault of the environment has hit.
BothPassed(path) ==
    /\ Quiescent
    /\ \A r \in Runners : PassedCheck(r, path) /\ ~env[r]

\* C30: Migrate has no mutual exclusion between runners. When two calls
\* that interleave have both passed the ledger check of the same version,
\* the SQL of the file is executed by both; when both executions succeed
\* every statement has taken effect twice and one of the calls has failed
\* on the primary key of the ledger.
C30_NoMutualExclusion ==
    \A n \in Candidates(dir) :
        LET path == Join(MigrationsDir, n) IN
        BothPassed(path) =>
            /\ \A r \in Runners : Executed(r, path)
            /\ (\A r \in Runners : ExecutedOk(r, path)) =>
                    /\ \A i \in StmtsOf(n) : Copies(db, n, i) >= 2
                    /\ \E r \in Runners : FailedOnPrimaryKey(r, path)
                    /\ Version(n) \in db.ledger

\* Both runners have passed the check of the same file; its statement has
\* taken effect twice, and the second insert has failed on the primary key.
C30_Witness ==
    LET path == Join(MigrationsDir, MoreSql) IN
    /\ MoreSql \in DOMAIN dir
    /\ BothPassed(path)
    /\ Copies(db, MoreSql, 1) = 2
    /\ FailedOnPrimaryKey(2, path)
    /\ result[1] = "ok"

\* The paths a sequence holds.
Range(seq) == {seq[i] : i \in 1..Len(seq)}

\* The entries discovery has to ignore: subdirectories and the files that do
\* not end in .sql.
Ignored(d) == DOMAIN d \ Candidates(d)

\* C31: discovery takes exactly the entries that are not directories and
\* whose name ends in .sql. A subdirectory, also one named *.sql, and a file
\* of another extension are not listed, are never checked, read, executed
\* or recorded, and no call fails on them.
C31_DiscoveryTakesSqlFilesOnly ==
    /\ \A r \in Runners :
        /\ pc[r] \in {"loop", "read", "exec", "record"} =>
                Range(files[r]) = {Join(MigrationsDir, n) : n \in Candidates(dir)}
        /\ \A i \in 1..Len(trace[r]) : \A n \in Ignored(dir) :
                trace[r][i].path # Join(MigrationsDir, n)
    /\ \A n \in Ignored(dir) :
        /\ Version(n) \notin db.ledger
        /\ \A i \in 1..2 : Copies(db, n, i) = 0
        /\ \A k \in 1..Len(hist) :
                hist[k].ev = "run" => hist[k].path # Join(MigrationsDir, n)

\* A call has recorded a file and returned nil, in a directory that holds a
\* subdirectory named *.sql and a file of another extension.
C31_Witness ==
    /\ pc[1] = "done"
    /\ result[1] = "ok"
    /\ Recorded(1) # {}
    /\ {OldDir, Readme} \subseteq Ignored(dir)
    /\ dir[OldDir].isDir

\* C37: a call of Do that has returned has not returned a nil response with
\* a nil error, whatever MaxRetries was given to New and whatever count to
\* WithRetries, negative ones included: it has returned a non-nil error, or
\* a response with a nil error, and when the request was built this is the
\* result of the last attempt made.
C37_NeverNilNil ==
    hcPc = "done" =>
        /\ ~(reply.status = 0 /\ reply.err = "nil")
        /\ reply.err # "nil" \/ reply.status # 0
        /\ reply.err = "nil" => reply.status # 0
        /\ reqOpts.valid =>
            /\ Len(Sends) >= 1
            /\ reply = [status |-> Sends[Len(Sends)].status,
                        err |-> Sends[Len(Sends)].err]

\* A call made with WithRetries(-1) on a client without retries has returned
\* the network error of its only attempt.
C37_Witness ==
    /\ hcPc = "done"
    /\ call.withRetries
    /\ reqOpts.Retries < 0
    /\ config.MaxRetries = 0
    /\ reply = [status |-> 0, err |-> "neterr"]
    /\ Len(Sends) = 1

\* The Server of the behaviour was built with a nil authCallback.
NilCallback == \E s \in server : ~s.authCallback

\* C38: on a server created with a nil auth callback, a request to a route
\* whose AuthType is not "none" is answered 500 and its handler is never
\* invoked; a request to a route with AuthType "none" is served: it goes
\* through logging and injection to its handler.
C38_NilCallbackAnswers500 ==
    NilCallback =>
        \A q \in Requests :
            /\ (whPc[q] \notin {"idle", "auth"} /\ route[q].AuthType # "none") =>
                    /\ whPc[q] = "done"
                    /\ response[q] = 500
                    /\ steps[q] = <<"error">>
                    /\ seen[q] = {}
            /\ (whPc[q] # "idle" /\ route[q].AuthType = "none") =>
                    /\ response[q] \in {0, 200}
                    /\ IsPrefix(steps[q], <<"log", "inject", "handle">>)
                    /\ whPc[q] = "done" => Handled(q) /\ response[q] = 200

\* With a nil callback, a request to the route of the empty auth type was
\* answered 500 and one to the route "none" was handled.
C38_Witness ==
    /\ NilCallback
    /\ \E q, p \in Requests :
        /\ route[q].AuthType = "" /\ response[q] = 500 /\ whPc[q] = "done"
        /\ route[p].AuthType = "none" /\ Handled(p) /\ response[p] = 200

\* ------------------------------------------------- MemoryCache, continued

\* The ttl values of the callers of Exists: a negative one too.
TtlsSigned == Ttls \cup {0 - 1}

\* An Exists that does not look at the expiration.
PresentAnyAge(m, k, t) == k \in DOMAIN m

\* Exists, lines 84-94.
Present(m, k, t) ==
    IF k \notin DOMAIN m THEN FALSE
    ELSE IF m[k].expiration > 0 /\ Unix(t) > m[k].expiration THEN FALSE
    ELSE TRUE

\* MemoryCache.Exists, lines 80-95, under the read lock.
Exists(k) ==
    /\ ret' = Returned("exists", k,
                       IF Present(items, k, now) THEN "true" ELSE "false",
                       "nil")
    /\ UNCHANGED <<now, items, ticker, written>>

\* The callers use one value, and every operation of the cache.
NextExists ==
    \/ (\E k \in Keys, ttl \in TtlsSigned : Set(k, "v1", ttl))
            /\ UNCHANGED <<migrateVars, createVars, clientVars, serverVars,
                           userVars, lockVars,
                           bodyVars, raceVars>>
    \/ (\E k \in Keys : Get(k))
            /\ UNCHANGED <<migrateVars, createVars, clientVars, serverVars,
                           userVars, lockVars,
                           bodyVars, raceVars>>
    \/ (\E k \in Keys : Exists(k))
            /\ UNCHANGED <<migrateVars, createVars, clientVars, serverVars,
                           userVars, lockVars,
                           bodyVars, raceVars>>
    \/ (\E k \in Keys : Delete(k))
            /\ UNCHANGED <<migrateVars, createVars, clientVars, serverVars,
                           userVars, lockVars,
                           bodyVars, raceVars>>
    \/ Cleanup /\ UNCHANGED <<migrateVars, createVars, clientVars, serverVars,
                              userVars, lockVars,
                           bodyVars, raceVars>>
    \/ (\E d \in {1, CleanupInterval * TicksPerSecond} : Advance(d))
            /\ UNCHANGED <<migrateVars, createVars, clientVars, serverVars,
                           userVars, lockVars,
                           bodyVars, raceVars>>

SpecExists == InitCache /\ [][NextExists]_vars

\* The last Set or Delete of key k is a Set whose entry is still due to
\* live at instant t: its ttl is not positive, or has not fully elapsed.
StillDue(k, t) ==
    /\ written[k].op = "set"
    /\ written[k].due = 0 \/ t < written[k].due

\* C33: an entry stored by Set with ttl > 0 is not treated as expired before
\* the ttl has fully elapsed, sub-second ttls included: until then cleanup
\* and Get leave it in the map, Get returns its value and Exists returns
\* true. An entry stored with ttl <= 0 stays until a Delete or a Set of its
\* key.
C33_NeverExpiresEarly ==
    \A k \in Keys :
        StillDue(k, now) =>
            /\ k \in DOMAIN items
            /\ items[k].value = written[k].value
            /\ written[k].due = 0 <=> items[k].expiration = 0
            /\ (ret.fresh /\ ret.key = k /\ ret.op = "get") =>
                    ret.err = "nil" /\ ret.value = written[k].value
            /\ (ret.fresh /\ ret.key = k /\ ret.op = "exists") =>
                    ret.value = "true"

\* An entry set with a ttl of one tick, half a second, is found by Exists
\* within the ttl, while the other key holds an entry set with a negative
\* ttl before a cleanup pass.
C33_Witness ==
    \E k, j \in Keys :
        /\ ret = Returned("exists", k, "true", "nil")
        /\ written[k].op = "set" /\ written[k].due = now + 1
        /\ j # k /\ j \in DOMAIN items /\ items[j].expiration = 0
        /\ ticker > Created + CleanupInterval * TicksPerSecond

\* C34: Exists and Get agree: at one instant, with no operation between
\* them, Exists(key) returns true exactly when Get(key) returns a value and
\* a nil error, whichever of the two is called first; and Exists leaves the
\* contents of the cache as they are.
C34_ExistsAgreesWithGet ==
    [][/\ (ret'.op = "exists" /\ ret'.fresh) => items' = items
       /\ (/\ ret.op = "exists" /\ ret.fresh
           /\ ret'.op = "get" /\ ret'.fresh /\ ret'.key = ret.key) =>
                (ret.value = "true" <=> ret'.err = "nil")
       /\ (/\ ret.op = "get" /\ ret.fresh
           /\ ret'.op = "exists" /\ ret'.fresh /\ ret'.key = ret.key) =>
                (ret.err = "nil" <=> ret'.value = "true")
      ]_vars

\* Exists has returned false for an entry that is in the map and has
\* expired, while the other key holds an entry Exists would find.
C34_Witness ==
    /\ ret.op = "exists" /\ ret.fresh /\ ret.value = "false"
    /\ ret.key \in DOMAIN items
    /\ \E j \in Keys \ {ret.key} : Present(items, j, now)

\* C35: Delete returns nil, for an absent key too, and leaves the value and
\* the expiration of every other key as they are; from then to the next Set
\* of the key, the key is not in the map, Get returns ErrKeyNotFound and
\* Exists returns false.
C35_DeleteRemovesOneKey ==
    [][/\ (ret'.op = "delete" /\ ret'.fresh) =>
            /\ ret'.err = "nil"
            /\ \A j \in Keys \ {ret'.key} :
                /\ j \in DOMAIN items' <=> j \in DOMAIN items
                /\ j \in DOMAIN items => items'[j] = items[j]
       /\ \A k \in Keys : written'[k].op = "delete" =>
            /\ k \notin DOMAIN items'
            /\ (ret'.key = k /\ ret'.op = "get") =>
                    ret'.err = "ErrKeyNotFound" /\ ret'.value = "nil"
            /\ (ret'.key = k /\ ret'.op = "exists") => ret'.value = "false"
      ]_vars

\* A Get of a deleted key has returned ErrKeyNotFound, with the entry of the
\* other key, which has an expiration, still in the map.
C35_Witness ==
    /\ ret.op = "get" /\ ret.err = "ErrKeyNotFound"
    /\ written[ret.key].op = "delete"
    /\ \E j \in DOMAIN items : j # ret.key /\ items[j].expiration > 0

\* ------------------------------------------- MemoryCache and its mutex

\* The goroutines that call Set, Get, Delete and Exists.
Accessors == Goroutines \ {0}

\* c.mutex.RLock() and c.mutex.Lock(): what lets the caller in.
CanRLock == mutex.writer = {}
CanLock == mutex.writer = {} /\ mutex.readers = {}

\* Two goroutines are in the map at once, one of them modifying it.
Racing ==
    \E g, h \in Goroutines :
        g # h /\ gPc[g] = "writing" /\ gPc[h] \in {"reading", "writing"}

\* Get, lines 52-55, and Exists, lines 81-84: the read lock is taken and the
\* lookup in the map begins.
BeginRead(g, op, k) ==
    /\ ~fatal
    /\ gPc[g] = "idle"
    /\ CanRLock
    /\ mutex' = [mutex EXCEPT !.readers = @ \cup {g}]
    /\ gPc' = [gPc EXCEPT ![g] = "reading"]
    /\ gOp' = [gOp EXCEPT ![g] = [op |-> op, key |-> k, ttl |-> 0]]
    /\ UNCHANGED <<fatal, now, items, ticker, ret, written>>

\* Get, lines 55-67, and Exists, lines 84-95: the lookup is over. Get goes
\* on to delete an entry that has expired, line 63, with the read lock
\* held; otherwise the deferred RUnlock runs.
EndRead(g) ==
    /\ ~fatal
    /\ gPc[g] = "reading"
    /\ LET k == gOp[g].key IN
       IF gOp[g].op = "get" /\ k \in DOMAIN items /\ Expired(items[k], now)
       THEN /\ gPc' = [gPc EXCEPT ![g] = "writing"]
            /\ UNCHANGED mutex
       ELSE /\ gPc' = [gPc EXCEPT ![g] = "idle"]
            /\ mutex' = [mutex EXCEPT !.readers = @ \ {g}]
    /\ UNCHANGED <<gOp, fatal, now, items, ticker, ret, written>>

\* Set, lines 34-42, and Delete, lines 72-75: the write lock is taken and
\* the modification of the map begins.
BeginWrite(g, op, k, ttl) ==
    /\ ~fatal
    /\ gPc[g] = "idle"
    /\ CanLock
    /\ mutex' = [mutex EXCEPT !.writer = {g}]
    /\ gPc' = [gPc EXCEPT ![g] = "writing"]
    /\ gOp' = [gOp EXCEPT ![g] = [op |-> op, key |-> k, ttl |-> ttl]]
    /\ UNCHANGED <<fatal, now, items, ticker, ret, written>>

\* cleanup, lines 107-109: the ticker has ticked, the write lock is taken
\* and the pass begins.
BeginCleanup ==
    /\ ~fatal
    /\ gPc[0] = "idle"
    /\ now >= ticker
    /\ CanLock
    /\ ticker' = ticker + CleanupInterval * TicksPerSecond
    /\ mutex' = [mutex EXCEPT !.writer = {0}]
    /\ gPc' = [gPc EXCEPT ![0] = "writing"]
    /\ gOp' = [gOp EXCEPT ![0] = [op |-> "cleanup", key |-> "", ttl |-> 0]]
    /\ UNCHANGED <<fatal, now, items, ret, written>>

\* The modification is over and the lock the goroutine holds is released:
\* lines 42-47, 63-64, 75-76 and 110-115.
EndWrite(g) ==
    /\ ~fatal
    /\ gPc[g] = "writing"
    /\ LET o == gOp[g] IN
       items' =
          IF o.op = "set"
          THEN Put(items, o.key,
                   [value |-> "v1", expiration |-> Expiration(now, o.ttl)])
          ELSE IF o.op = "cleanup"
          THEN [k \in {x \in DOMAIN items :
                          ~CleanupDeletes(items[x], Unix(now))} |-> items[k]]
          ELSE Remove(items, o.key)
    /\ mutex' = [writer |-> mutex.writer \ {g}, readers |-> mutex.readers \ {g}]
    /\ gPc' = [gPc EXCEPT ![g] = "idle"]
    /\ UNCHANGED <<gOp, fatal, now, ticker, ret, written>>

\* A concurrent access to a map while it is modified is a data race: the
\* runtime may end the process ("fatal error: concurrent map writes",
\* "concurrent map read and map write"), or the accesses go on.
Crash ==
    /\ ~fatal
    /\ Racing
    /\ fatal' = TRUE
    /\ UNCHANGED <<mutex, gPc, gOp, now, items, ticker, ret, written>>

\* A cleanup interval passes.
Pass ==
    /\ ~fatal
    /\ (now - Created) \div (CleanupInterval * TicksPerSecond) < MaxJumps
    /\ now' = now + CleanupInterval * TicksPerSecond
    /\ UNCHANGED <<mutex, gPc, gOp, fatal, items, ticker, ret, written>>

InitLock ==
    /\ MigrateInit({Tree({}, <<>>)}, {"sqlite3"})
    /\ CreateInit({FALSE})
    /\ CacheInit
    /\ ClientInit
    /\ ServerInit
    /\ UserInit
    /\ LockInit
    /\ BodyInit
    /\ RaceInit

NextLock ==
    \/ (\E g \in Accessors, op \in {"get", "exists"}, k \in Keys :
            BeginRead(g, op, k))
            /\ UNCHANGED <<migrateVars, createVars, clientVars, serverVars,
                           userVars, bodyVars, raceVars>>
    \/ (\E g \in Accessors : EndRead(g))
            /\ UNCHANGED <<migrateVars, createVars, clientVars, serverVars,
                           userVars, bodyVars, raceVars>>
    \/ (\E g \in Accessors, k \in Keys, ttl \in {0, 1} :
            BeginWrite(g, "set", k, ttl))
            /\ UNCHANGED <<migrateVars, createVars, clientVars, serverVars,
                           userVars, bodyVars, raceVars>>
    \/ (\E g \in Accessors, k \in Keys : BeginWrite(g, "delete", k, 0))
            /\ UNCHANGED <<migrateVars, createVars, clientVars, serverVars,
                           userVars, bodyVars, raceVars>>
    \/ BeginCleanup
            /\ UNCHANGED <<migrateVars, createVars, clientVars, serverVars,
                           userVars, bodyVars, raceVars>>
    \/ (\E g \in Goroutines : EndWrite(g))
            /\ UNCHANGED <<migrateVars, createVars, clientVars, serverVars,
                           userVars, bodyVars, raceVars>>
    \/ Crash
            /\ UNCHANGED <<migrateVars, createVars, clientVars, serverVars,
                           userVars, bodyVars, raceVars>>
    \/ Pass
            /\ UNCHANGED <<migrateVars, createVars, clientVars, serverVars,
                           userVars, bodyVars, raceVars>>

SpecLock == InitLock /\ [][NextLock]_vars

\* C32: every modification of the map is made by the goroutine that holds
\* the write lock: no two goroutines modify the map at the same time, none
\* modifies it while another reads it, and the runtime never ends the
\* process for a concurrent map access.
C32_MapWritesHoldWriteLock ==
    /\ \A g \in Goroutines :
        gPc[g] = "writing" =>
            /\ mutex.writer = {g}
            /\ \A h \in Goroutines \ {g} :
                    gPc[h] \notin {"reading", "writing"}
    /\ ~fatal

\* ------------------------------------------- Client.Do, the request body

\* The bytes given as body, up to MaxBody of them.
BodyData == {[i \in 1..n |-> i] : n \in 0..MaxBody}

\* What RequestOptions.Body can hold, line 42: nil, or a reader at its
\* start; http.NewRequest knows the length of a *bytes.Reader, a
\* *bytes.Buffer and a *strings.Reader and of no other reader. The JSON
\* methods give none (lines 152, 175) or a bytes.NewReader (lines 198, 222,
\* 246).
BodiesOf(c) ==
    {{}} \cup
    {{[data |-> d, off |-> 0, known |-> k]} :
        d \in BodyData, k \in IF c.json THEN {TRUE} ELSE BOOLEAN}

\* What is left to read of the reader.
Remaining(b) == SubSeq(b.data, b.off + 1, Len(b.data))

\* Do, lines 77-110, with the body of the options: http.NewRequest wraps
\* the reader in the one request of the call, lines 86-90. The call followed
\* is the first of its client; a later call brings a reader of its own.
DoBody(c, r, valid, b) ==
    /\ hcPc = "ready"
    /\ Do(c, r, valid)
    /\ reqBody' = b
    /\ wire' = <<>>

\* Do, lines 111-117 and 120: one attempt, made with the request built at
\* line 86. The transport reads the body from where the reader stands, up
\* to n, and nothing puts the reader back to its start. A body of known
\* length that comes short of it fails the attempt ("http: ContentLength=N
\* with Body length M").
SendBody(out, n) ==
    /\ Send(out)
    /\ IF reqBody = {}
       THEN /\ n = 0
            /\ wire' = Append(wire, <<>>)
            /\ UNCHANGED reqBody
       ELSE LET b == CHOOSE x \in reqBody : TRUE IN
            /\ n \in b.off..Len(b.data)
            /\ (b.known /\ b.off > 0) => out.err = "neterr"
            /\ wire' = Append(wire, Remaining(b))
            /\ reqBody' = {[b EXCEPT !.off = n]}

InitBody ==
    /\ MigrateInit({Tree({}, <<>>)}, {"sqlite3"})
    /\ CreateInit({FALSE})
    /\ CacheInit
    /\ ClientInit
    /\ ServerInit
    /\ UserInit
    /\ LockInit
    /\ BodyInit
    /\ RaceInit

NextBody ==
    \/ (\E m \in RetryArgs : New(m))
            /\ UNCHANGED <<migrateVars, createVars, cacheVars, serverVars,
                           userVars, lockVars, bodyVars, raceVars>>
    \/ (\E c \in Calls, r \in RetryArgs, valid \in BOOLEAN :
            \E b \in BodiesOf(c) : DoBody(c, r, valid, b))
            /\ UNCHANGED <<migrateVars, createVars, cacheVars, serverVars,
                           userVars, lockVars, raceVars>>
    \/ (\E readOk \in BOOLEAN, parses \in BOOLEAN :
            ReturnJSON(readOk, parses))
            /\ UNCHANGED <<migrateVars, createVars, cacheVars, serverVars,
                           userVars, lockVars, bodyVars, raceVars>>
    \/ (\E out \in Outcomes, n \in 0..MaxBody : SendBody(out, n))
            /\ UNCHANGED <<migrateVars, createVars, cacheVars, serverVars,
                           userVars, lockVars, raceVars>>
    \/ Sleep /\ UNCHANGED <<migrateVars, createVars, cacheVars, serverVars,
                            userVars, lockVars, bodyVars, raceVars>>
    \/ GiveUp /\ UNCHANGED <<migrateVars, createVars, cacheVars, serverVars,
                             userVars, lockVars, bodyVars, raceVars>>

SpecBody == InitBody /\ [][NextBody]_vars

\* C36: every attempt of one call carries the full body given to the call:
\* the first attempt and every retry.
C36_EveryAttemptCarriesFullBody ==
    \A b \in reqBody : \A i \in 1..Len(wire) : wire[i] = b.data

\* ------------------------------------ user service, concurrent requests

\* The handlers that read and the handlers that write user 1.
Readers == {"GetUser", "GetUsers"}
Writers == {"UpdateUser", "DeleteUser"}

\* The {id} of every request to /users/{id}: "1".
TheId == 1
TheIdStr == Itoa(TheId)

\* cacheKey, lines 69 and 124.
KeyOf(h) == IF h = "GetUsers" THEN UsersListKey ELSE UserKey(TheIdStr)

Answered(status, cached, ver) ==
    [status |-> status, cached |-> cached, ver |-> ver]

\* The router calls a handler for the request of client q; the id parses
\* (lines 113, 217, 291) and the body decodes (line 226).
Arrives(q, h) ==
    /\ rqPc[q] = "idle"
    /\ rqHandler' = [rqHandler EXCEPT ![q] = h]
    /\ base' = [base EXCEPT ![q] = acked]
    /\ rqPc' = [rqPc EXCEPT ![q] = IF h \in Readers THEN "cache" ELSE "exec"]
    /\ UNCHANGED <<got, answer, wrote, dbVer, acked, users, cache>>

\* GetUsers, lines 70-75, and GetUser, lines 125-130: h.cache.Get, and the
\* response on a hit.
TryCache(q) ==
    /\ rqPc[q] = "cache"
    /\ LET key == KeyOf(rqHandler[q]) IN
       IF key \in DOMAIN cache
       THEN /\ answer' = [answer EXCEPT
                            ![q] = Answered(200, TRUE, cache[key].ver)]
            /\ rqPc' = [rqPc EXCEPT ![q] = "done"]
       ELSE /\ rqPc' = [rqPc EXCEPT ![q] = "query"]
            /\ UNCHANGED answer
    /\ UNCHANGED <<rqHandler, got, base, wrote, dbVer, acked, users, cache>>

\* GetUsers, lines 78-96, and GetUser, lines 134-142: the query, and the
\* response 404 of GetUser for no row.
QueryDb(q) ==
    /\ rqPc[q] = "query"
    /\ IF rqHandler[q] = "GetUser" /\ TheId \notin DOMAIN users
       THEN /\ answer' = [answer EXCEPT ![q] = Answered(404, FALSE, dbVer)]
            /\ rqPc' = [rqPc EXCEPT ![q] = "done"]
            /\ UNCHANGED got
       ELSE /\ got' = [got EXCEPT ![q] =
                        {[data |-> IF rqHandler[q] = "GetUser"
                                   THEN <<users[TheId]>> ELSE <<users>>,
                          ver |-> dbVer]}]
            /\ rqPc' = [rqPc EXCEPT ![q] = "fill"]
            /\ UNCHANGED answer
    /\ UNCHANGED <<rqHandler, base, wrote, dbVer, acked, users, cache>>

\* GetUsers, lines 99-105, and GetUser, lines 151-157: h.cache.Set with what
\* the query gave, and the response.
FillCache(q) ==
    /\ rqPc[q] = "fill"
    /\ LET row == CHOOSE x \in got[q] : TRUE IN
       /\ cache' = CacheSet(cache, KeyOf(rqHandler[q]), row)
       /\ answer' = [answer EXCEPT ![q] = Answered(200, FALSE, row.ver)]
    /\ rqPc' = [rqPc EXCEPT ![q] = "done"]
    /\ UNCHANGED <<rqHandler, got, base, wrote, dbVer, acked, users>>

\* UpdateUser, lines 259-274, and DeleteUser, lines 302-316: h.db.Exec, and
\* the response 404 for no row.
ExecDb(q, name) ==
    /\ rqPc[q] = "exec"
    /\ IF TheId \notin DOMAIN users
       THEN /\ answer' = [answer EXCEPT ![q] = Answered(404, FALSE, dbVer)]
            /\ rqPc' = [rqPc EXCEPT ![q] = "done"]
            /\ UNCHANGED <<users, dbVer, wrote>>
       ELSE /\ users' = IF rqHandler[q] = "UpdateUser"
                        THEN [users EXCEPT ![TheId] = name]
                        ELSE [i \in DOMAIN users \ {TheId} |-> users[i]]
            /\ dbVer' = dbVer + 1
            /\ wrote' = [wrote EXCEPT ![q] = dbVer + 1]
            /\ rqPc' = [rqPc EXCEPT ![q] = "clearList"]
            /\ UNCHANGED answer
    /\ UNCHANGED <<rqHandler, got, base, acked, cache>>

\* UpdateUser, line 277, and DeleteUser, line 319.
DropList(q) ==
    /\ rqPc[q] = "clearList"
    /\ cache' = CacheDelete(cache, UsersListKey)
    /\ rqPc' = [rqPc EXCEPT ![q] = "clearUser"]
    /\ UNCHANGED <<rqHandler, got, answer, base, wrote, dbVer, acked, users>>

\* UpdateUser, line 278, and DeleteUser, line 320.
DropUser(q) ==
    /\ rqPc[q] = "clearUser"
    /\ cache' = CacheDelete(cache, UserKey(TheIdStr))
    /\ rqPc' = [rqPc EXCEPT ![q] = "respond"]
    /\ UNCHANGED <<rqHandler, got, answer, base, wrote, dbVer, acked, users>>

\* UpdateUser, lines 282-283, and DeleteUser, lines 324-325: the response
\* is returned.
ReturnOk(q) ==
    /\ rqPc[q] = "respond"
    /\ answer' = [answer EXCEPT ![q] = Answered(200, FALSE, wrote[q])]
    /\ acked' = IF wrote[q] > acked THEN wrote[q] ELSE acked
    /\ rqPc' = [rqPc EXCEPT ![q] = "done"]
    /\ UNCHANGED <<rqHandler, got, base, wrote, dbVer, users, cache>>

\* The service with user 1 created, before any request for it.
UserOneInit ==
    /\ users = [i \in {TheId} |-> "n1"]
    /\ lastId = TheId
    /\ cache = [k \in {} |-> 0]
    /\ uhPc = "idle"
    /\ ureq = [handler |-> "none", idStr |-> <<>>, body |-> "none"]
    /\ ustatus = 0
    /\ usteps = <<>>
    /\ cache0 = [k \in {} |-> 0]

InitRace ==
    /\ MigrateInit({Tree({}, <<>>)}, {"sqlite3"})
    /\ CreateInit({FALSE})
    /\ CacheInit
    /\ ClientInit
    /\ ServerInit
    /\ UserOneInit
    /\ LockInit
    /\ BodyInit
    /\ RaceInit

NextRace ==
    \/ (\E q \in Clients, h \in Readers \cup Writers : Arrives(q, h))
            /\ UNCHANGED <<migrateVars, createVars, cacheVars, clientVars,
                           serverVars, lockVars, bodyVars, lastId, uhPc, ureq,
                           ustatus, usteps, cache0>>
    \/ (\E q \in Clients : TryCache(q))
            /\ UNCHANGED <<migrateVars, createVars, cacheVars, clientVars,
                           serverVars, lockVars, bodyVars, lastId, uhPc, ureq,
                           ustatus, usteps, cache0>>
    \/ (\E q \in Clients : QueryDb(q))
            /\ UNCHANGED <<migrateVars, createVars, cacheVars, clientVars,
                           serverVars, lockVars, bodyVars, lastId, uhPc, ureq,
                           ustatus, usteps, cache0>>
    \/ (\E q \in Clients : FillCache(q))
            /\ UNCHANGED <<migrateVars, createVars, cacheVars, clientVars,
                           serverVars, lockVars, bodyVars, lastId, uhPc, ureq,
                           ustatus, usteps, cache0>>
    \/ (\E q \in Clients, name \in Names : ExecDb(q, name))
            /\ UNCHANGED <<migrateVars, createVars, cacheVars, clientVars,
                           serverVars, lockVars, bodyVars, lastId, uhPc, ureq,
                           ustatus, usteps, cache0>>
    \/ (\E q \in Clients : DropList(q))
            /\ UNCHANGED <<migrateVars, createVars, cacheVars, clientVars,
                           serverVars, lockVars, bodyVars, lastId, uhPc, ureq,
                           ustatus, usteps, cache0>>
    \/ (\E q \in Clients : DropUser(q))
            /\ UNCHANGED <<migrateVars, createVars, cacheVars, clientVars,
                           serverVars, lockVars, bodyVars, lastId, uhPc, ureq,
                           ustatus, usteps, cache0>>
    \/ (\E q \in Clients : ReturnOk(q))
            /\ UNCHANGED <<migrateVars, createVars, cacheVars, clientVars,
                           serverVars, lockVars, bodyVars, lastId, uhPc, ureq,
                           ustatus, usteps, cache0>>

SpecRace == InitRace /\ [][NextRace]_vars

\* C39: once UpdateUser or DeleteUser of user 1 has returned its response,
\* no GetUser(1) or GetUsers that arrives later is answered from the cache
\* with data read from the database before that write.
C39_NoStaleCacheAfterWrite ==
    \A q \in Clients :
        (rqPc[q] = "done" /\ rqHandler[q] \in Readers /\ answer[q].cached)
            => answer[q].ver >= base[q]

====
